---- MODULE Spec2Model ----
(***************************************************************************)
(* A model of the indexing-and-ranking engine of zenix-memory:             *)
(*   - the Normalizer (normalize_word of build_index.py and of             *)
(*     normalize_query.py) and the Index Builder (build_index.py),         *)
(*   - the Rank Formatter (format-results.py).                             *)
(*                                                                         *)
(* Text is modelled at character level: a Python str is a sequence of      *)
(* characters, and a character is a one-character string ("a", " ") or,   *)
(* for a character outside ASCII or a control character, its name          *)
(* ("U+4F60", "TAB", "NL").                                                *)
(***************************************************************************)
EXTENDS Integers, Sequences, FiniteSets, TLC

VARIABLES
    stemmer_installed,  \* environment: can `import Stemmer` succeed
    input_file,         \* build_index: the lines of the input not yet read
    output_file,        \* build_index: the lines written so far
    line_count,         \* build_index: process_index's counter
    cache,              \* build_index: the lru_cache of normalize_word
    pc_index,           \* build_index: "loop" while reading, "done" after
    sessions_limit,     \* format-results: argv[1]
    messages_limit,     \* format-results: argv[2]
    context,            \* format-results: argv[3]
    query,              \* format-results: argv[4]
    mode,               \* format-results: argv[5]
    query_normalized,   \* format-results: argv[6], or query.lower() without it
    current_session_id, \* format-results: CLAUDE_SESSION_ID, '' when unset
    keywords,           \* format-results: parse_keywords(query, mode)
    keywords_normalized,\* format-results: query_normalized.lower().split()
    line,               \* format-results: the line of stdin read last
    nread,              \* format-results: the number of lines read
    sessions,           \* format-results: the dict of the messages by session
    session_stats,      \* format-results: the list of the session statistics
    stdout,             \* format-results: what main has printed
    stderr,             \* format-results: the ids main has printed to stderr
    pc_fmt,             \* format-results: the part of main that runs next
    jieba_installed,    \* hint_keywords: the jieba package can be imported
    hint_text,          \* hint_keywords.extract_keywords: text
    max_keywords,       \* hint_keywords.extract_keywords: max_keywords
    segments,           \* hint_keywords.extract_keywords: the segments not yet visited
    hint_keywords,      \* hint_keywords.extract_keywords: keywords
    unique_keywords,    \* hint_keywords.extract_keywords: the list returned
    pc_hint,            \* hint_keywords.extract_keywords: the part that runs next
    disc_messages,      \* build_custom_keywords: the texts of the messages load_index returned
    msg_index,          \* build_custom_keywords.find_cooccurrences: the messages visited
    global_counts,      \* build_custom_keywords.find_cooccurrences: global_counts
    cooccurrence,       \* build_custom_keywords.find_cooccurrences: cooccurrence
    candidates,         \* build_custom_keywords.score_candidates: candidates
    pc_disc,            \* build_custom_keywords.main: the part that runs next
    english_freq,       \* build_custom_keywords: the counts of data/english_freq.txt
    jieba_freq,         \* build_custom_keywords: jieba.dt.FREQ, the counts of jieba's dictionary
    write_mode,         \* build_custom_keywords.main: '--write' in sys.argv
    keyword_file,       \* data/custom_keywords.txt: whether it exists, and its lines
    existing,           \* build_custom_keywords.main: existing
    new_keywords,       \* build_custom_keywords.main: new_keywords
    file_buffer,        \* build_custom_keywords.main: the lines written to f and not yet in the file
    observed,           \* a reader of data/custom_keywords.txt: the keywords it has read
    run_modes           \* args.write of the runs of build_custom_keywords.py started so far

index_vars == <<input_file, output_file, line_count, cache, pc_index>>
fmt_args == <<sessions_limit, messages_limit, context, query, mode, query_normalized, current_session_id,
              keywords, keywords_normalized>>
fmt_vars == <<fmt_args,
              line, nread, sessions, session_stats, stdout, stderr, pc_fmt>>
hint_vars == <<jieba_installed, hint_text, max_keywords, segments, hint_keywords,
               unique_keywords, pc_hint>>
freq_vars == <<english_freq, jieba_freq>>
write_vars == <<write_mode, keyword_file, existing, new_keywords, file_buffer, observed, run_modes>>
disc_vars == <<disc_messages, msg_index, global_counts, cooccurrence, candidates, pc_disc,
               freq_vars, write_vars>>
vars == <<stemmer_installed, index_vars, fmt_vars, hint_vars, disc_vars>>

(***************************************************************************)
(* Characters                                                              *)
(***************************************************************************)
UpperLetters == <<"A","B","C","D","E","F","G","H","I","J","K","L","M",
                  "N","O","P","Q","R","S","T","U","V","W","X","Y","Z">>
LowerLetters == <<"a","b","c","d","e","f","g","h","i","j","k","l","m",
                  "n","o","p","q","r","s","t","u","v","w","x","y","z">>
Digits == {"0","1","2","3","4","5","6","7","8","9"}

Range(s) == {s[i] : i \in DOMAIN s}

UpperSet == Range(UpperLetters)
LowerSet == Range(LowerLetters)

\* The characters outside ASCII the model uses: five CJK ideographs (U+4F60,
\* U+597D, U+7684, and U+65E5 U+5386 of the seed keyword) and the letter pair U+00C9 / U+00E9 (E acute, upper and lower).
CjkChars == {"U+4F60", "U+597D", "U+7684", "U+65E5", "U+5386"}
\* one hiragana letter (U+3042)
KanaChars == {"U+3042"}
NonAsciiChars == CjkChars \cup KanaChars \cup {"U+00C9", "U+00E9"}

Tab == "TAB"
Newline == "NL"
Space == " "

\* [a-zA-Z] of the regular expressions
IsAsciiLetter(c) == c \in UpperSet \/ c \in LowerSet

\* \w of Python's re on str patterns: Unicode alphanumerics and the underscore
IsWordChar(c) == IsAsciiLetter(c) \/ c \in Digits \/ c = "_" \/ c \in NonAsciiChars

\* whitespace of str.split() with no argument
IsSpace(c) == c \in {Space, Tab, Newline}

\* str.lower() on one character
LowerChar(c) ==
    IF c \in UpperSet
      THEN LowerLetters[CHOOSE i \in DOMAIN UpperLetters : UpperLetters[i] = c]
      ELSE IF c = "U+00C9" THEN "U+00E9" ELSE c

\* str.lower()
Lower(s) == [i \in DOMAIN s |-> LowerChar(s[i])]

\* str.isascii()
IsAscii(s) == \A i \in DOMAIN s : s[i] \notin NonAsciiChars

(***************************************************************************)
(* String helpers                                                          *)
(***************************************************************************)
Max(S) == CHOOSE x \in S : \A y \in S : y <= x
Min(S) == CHOOSE x \in S : \A y \in S : x <= y

RECURSIVE Flatten(_)
\* ''.join(parts)
Flatten(parts) ==
    IF parts = <<>> THEN <<>> ELSE Head(parts) \o Flatten(Tail(parts))

RECURSIVE Join(_, _)
\* sep.join(parts)
Join(sep, parts) ==
    IF parts = <<>> THEN <<>>
    ELSE IF Len(parts) = 1 THEN parts[1]
    ELSE parts[1] \o sep \o Join(sep, Tail(parts))

RECURSIVE SplitOn(_, _)
\* s.split(c) for a one-character separator c: never empty, keeps empty fields
SplitOn(s, c) ==
    IF \A i \in DOMAIN s : s[i] # c THEN <<s>>
    ELSE LET k == Min({i \in DOMAIN s : s[i] = c})
         IN  <<SubSeq(s, 1, k - 1)>> \o SplitOn(SubSeq(s, k + 1, Len(s)), c)

RECURSIVE SplitWs(_)
\* s.split(): the maximal runs of non-whitespace characters
SplitWs(s) ==
    IF \A i \in DOMAIN s : IsSpace(s[i]) THEN <<>>
    ELSE LET a == Min({i \in DOMAIN s : ~IsSpace(s[i])})
             stops == {i \in a..Len(s) : IsSpace(s[i])}
             b == IF stops = {} THEN Len(s) ELSE Min(stops) - 1
         IN  <<SubSeq(s, a, b)>> \o SplitWs(SubSeq(s, b + 1, Len(s)))

RECURSIVE RStripNewline(_)
\* line.rstrip('\n')
RStripNewline(s) ==
    IF s # <<>> /\ s[Len(s)] = Newline THEN RStripNewline(SubSeq(s, 1, Len(s) - 1)) ELSE s

\* \b of Python's re at the gap before position p (1..Len(s)+1)
WordAt(s, k) == k \in DOMAIN s /\ IsWordChar(s[k])
BoundaryAt(s, p) == WordAt(s, p - 1) # WordAt(s, p)

RECURSIVE FindAlphaWordsFrom(_, _)
\* re.findall(r'\b[a-zA-Z]+\b', s), scanning from position i: at i the pattern
\* needs a boundary, then the longest run of letters that ends at a boundary
\* (the greedy + gives back letters until \b holds); a match resumes the scan
\* after it, a failure one character on.
FindAlphaWordsFrom(s, i) ==
    IF i > Len(s) THEN <<>>
    ELSE LET ends == {j \in i..Len(s) :
                        /\ \A k \in i..j : IsAsciiLetter(s[k])
                        /\ BoundaryAt(s, j + 1)}
         IN  IF BoundaryAt(s, i) /\ ends # {}
               THEN <<SubSeq(s, i, Max(ends))>> \o FindAlphaWordsFrom(s, Max(ends) + 1)
               ELSE FindAlphaWordsFrom(s, i + 1)

FindAlphaWords(s) == FindAlphaWordsFrom(s, 1)

(***************************************************************************)
(* The Normalizer                                                          *)
(***************************************************************************)

IRREGULARS_index ==
     (<<"w","a","s">> :> <<"b","e">>)
  @@ (<<"w","e","r","e">> :> <<"b","e">>)
  @@ (<<"b","e","e","n">> :> <<"b","e">>)
  @@ (<<"b","e","i","n","g">> :> <<"b","e">>)
  @@ (<<"a","m">> :> <<"b","e">>)
  @@ (<<"i","s">> :> <<"b","e">>)
  @@ (<<"a","r","e">> :> <<"b","e">>)
  @@ (<<"h","a","d">> :> <<"h","a","v","e">>)
  @@ (<<"h","a","s">> :> <<"h","a","v","e">>)
  @@ (<<"h","a","v","i","n","g">> :> <<"h","a","v","e">>)
  @@ (<<"d","i","d">> :> <<"d","o">>)
  @@ (<<"d","o","e","s">> :> <<"d","o">>)
  @@ (<<"d","o","i","n","g">> :> <<"d","o">>)
  @@ (<<"d","o","n","e">> :> <<"d","o">>)
  @@ (<<"w","e","n","t">> :> <<"g","o">>)
  @@ (<<"g","o","e","s">> :> <<"g","o">>)
  @@ (<<"g","o","i","n","g">> :> <<"g","o">>)
  @@ (<<"g","o","n","e">> :> <<"g","o">>)
  @@ (<<"r","a","n">> :> <<"r","u","n">>)
  @@ (<<"r","u","n","n","i","n","g">> :> <<"r","u","n">>)
  @@ (<<"r","u","n","s">> :> <<"r","u","n">>)
  @@ (<<"s","a","i","d">> :> <<"s","a","y">>)
  @@ (<<"s","a","y","s">> :> <<"s","a","y">>)
  @@ (<<"s","a","y","i","n","g">> :> <<"s","a","y">>)
  @@ (<<"m","a","d","e">> :> <<"m","a","k","e">>)
  @@ (<<"m","a","k","e","s">> :> <<"m","a","k","e">>)
  @@ (<<"m","a","k","i","n","g">> :> <<"m","a","k","e">>)
  @@ (<<"t","o","o","k">> :> <<"t","a","k","e">>)
  @@ (<<"t","a","k","e","s">> :> <<"t","a","k","e">>)
  @@ (<<"t","a","k","i","n","g">> :> <<"t","a","k","e">>)
  @@ (<<"t","a","k","e","n">> :> <<"t","a","k","e">>)
  @@ (<<"c","a","m","e">> :> <<"c","o","m","e">>)
  @@ (<<"c","o","m","e","s">> :> <<"c","o","m","e">>)
  @@ (<<"c","o","m","i","n","g">> :> <<"c","o","m","e">>)
  @@ (<<"s","a","w">> :> <<"s","e","e">>)
  @@ (<<"s","e","e","s">> :> <<"s","e","e">>)
  @@ (<<"s","e","e","i","n","g">> :> <<"s","e","e">>)
  @@ (<<"s","e","e","n">> :> <<"s","e","e">>)
  @@ (<<"k","n","e","w">> :> <<"k","n","o","w">>)
  @@ (<<"k","n","o","w","s">> :> <<"k","n","o","w">>)
  @@ (<<"k","n","o","w","i","n","g">> :> <<"k","n","o","w">>)
  @@ (<<"k","n","o","w","n">> :> <<"k","n","o","w">>)
  @@ (<<"g","o","t">> :> <<"g","e","t">>)
  @@ (<<"g","e","t","s">> :> <<"g","e","t">>)
  @@ (<<"g","e","t","t","i","n","g">> :> <<"g","e","t">>)
  @@ (<<"g","o","t","t","e","n">> :> <<"g","e","t">>)
  @@ (<<"g","a","v","e">> :> <<"g","i","v","e">>)
  @@ (<<"g","i","v","e","s">> :> <<"g","i","v","e">>)
  @@ (<<"g","i","v","i","n","g">> :> <<"g","i","v","e">>)
  @@ (<<"g","i","v","e","n">> :> <<"g","i","v","e">>)
  @@ (<<"f","o","u","n","d">> :> <<"f","i","n","d">>)
  @@ (<<"f","i","n","d","s">> :> <<"f","i","n","d">>)
  @@ (<<"f","i","n","d","i","n","g">> :> <<"f","i","n","d">>)
  @@ (<<"t","h","o","u","g","h","t">> :> <<"t","h","i","n","k">>)
  @@ (<<"t","h","i","n","k","s">> :> <<"t","h","i","n","k">>)
  @@ (<<"t","h","i","n","k","i","n","g">> :> <<"t","h","i","n","k">>)
  @@ (<<"t","o","l","d">> :> <<"t","e","l","l">>)
  @@ (<<"t","e","l","l","s">> :> <<"t","e","l","l">>)
  @@ (<<"t","e","l","l","i","n","g">> :> <<"t","e","l","l">>)
  @@ (<<"b","e","c","a","m","e">> :> <<"b","e","c","o","m","e">>)
  @@ (<<"b","e","c","o","m","e","s">> :> <<"b","e","c","o","m","e">>)
  @@ (<<"b","e","c","o","m","i","n","g">> :> <<"b","e","c","o","m","e">>)
  @@ (<<"l","e","f","t">> :> <<"l","e","a","v","e">>)
  @@ (<<"l","e","a","v","e","s">> :> <<"l","e","a","v","e">>)
  @@ (<<"l","e","a","v","i","n","g">> :> <<"l","e","a","v","e">>)
  @@ (<<"f","e","l","t">> :> <<"f","e","e","l">>)
  @@ (<<"f","e","e","l","s">> :> <<"f","e","e","l">>)
  @@ (<<"f","e","e","l","i","n","g">> :> <<"f","e","e","l">>)
  @@ (<<"b","r","o","u","g","h","t">> :> <<"b","r","i","n","g">>)
  @@ (<<"b","r","i","n","g","s">> :> <<"b","r","i","n","g">>)
  @@ (<<"b","r","i","n","g","i","n","g">> :> <<"b","r","i","n","g">>)
  @@ (<<"b","e","g","a","n">> :> <<"b","e","g","i","n">>)
  @@ (<<"b","e","g","i","n","s">> :> <<"b","e","g","i","n">>)
  @@ (<<"b","e","g","i","n","n","i","n","g">> :> <<"b","e","g","i","n">>)
  @@ (<<"b","e","g","u","n">> :> <<"b","e","g","i","n">>)
  @@ (<<"k","e","p","t">> :> <<"k","e","e","p">>)
  @@ (<<"k","e","e","p","s">> :> <<"k","e","e","p">>)
  @@ (<<"k","e","e","p","i","n","g">> :> <<"k","e","e","p">>)
  @@ (<<"h","e","l","d">> :> <<"h","o","l","d">>)
  @@ (<<"h","o","l","d","s">> :> <<"h","o","l","d">>)
  @@ (<<"h","o","l","d","i","n","g">> :> <<"h","o","l","d">>)
  @@ (<<"w","r","o","t","e">> :> <<"w","r","i","t","e">>)
  @@ (<<"w","r","i","t","e","s">> :> <<"w","r","i","t","e">>)
  @@ (<<"w","r","i","t","i","n","g">> :> <<"w","r","i","t","e">>)
  @@ (<<"w","r","i","t","t","e","n">> :> <<"w","r","i","t","e">>)
  @@ (<<"s","t","o","o","d">> :> <<"s","t","a","n","d">>)
  @@ (<<"s","t","a","n","d","s">> :> <<"s","t","a","n","d">>)
  @@ (<<"s","t","a","n","d","i","n","g">> :> <<"s","t","a","n","d">>)
  @@ (<<"h","e","a","r","d">> :> <<"h","e","a","r">>)
  @@ (<<"h","e","a","r","s">> :> <<"h","e","a","r">>)
  @@ (<<"h","e","a","r","i","n","g">> :> <<"h","e","a","r">>)
  @@ (<<"m","e","a","n","t">> :> <<"m","e","a","n">>)
  @@ (<<"m","e","a","n","s">> :> <<"m","e","a","n">>)
  @@ (<<"m","e","a","n","i","n","g">> :> <<"m","e","a","n">>)
  @@ (<<"m","e","t">> :> <<"m","e","e","t">>)
  @@ (<<"m","e","e","t","s">> :> <<"m","e","e","t">>)
  @@ (<<"m","e","e","t","i","n","g">> :> <<"m","e","e","t">>)
  @@ (<<"p","a","i","d">> :> <<"p","a","y">>)
  @@ (<<"p","a","y","s">> :> <<"p","a","y">>)
  @@ (<<"p","a","y","i","n","g">> :> <<"p","a","y">>)
  @@ (<<"s","a","t">> :> <<"s","i","t">>)
  @@ (<<"s","i","t","s">> :> <<"s","i","t">>)
  @@ (<<"s","i","t","t","i","n","g">> :> <<"s","i","t">>)
  @@ (<<"s","p","o","k","e">> :> <<"s","p","e","a","k">>)
  @@ (<<"s","p","e","a","k","s">> :> <<"s","p","e","a","k">>)
  @@ (<<"s","p","e","a","k","i","n","g">> :> <<"s","p","e","a","k">>)
  @@ (<<"s","p","o","k","e","n">> :> <<"s","p","e","a","k">>)
  @@ (<<"l","e","d">> :> <<"l","e","a","d">>)
  @@ (<<"l","e","a","d","s">> :> <<"l","e","a","d">>)
  @@ (<<"l","e","a","d","i","n","g">> :> <<"l","e","a","d">>)
  @@ (<<"r","e","a","d","s">> :> <<"r","e","a","d">>)
  @@ (<<"r","e","a","d","i","n","g">> :> <<"r","e","a","d">>)
  @@ (<<"g","r","e","w">> :> <<"g","r","o","w">>)
  @@ (<<"g","r","o","w","s">> :> <<"g","r","o","w">>)
  @@ (<<"g","r","o","w","i","n","g">> :> <<"g","r","o","w">>)
  @@ (<<"g","r","o","w","n">> :> <<"g","r","o","w">>)
  @@ (<<"l","o","s","t">> :> <<"l","o","s","e">>)
  @@ (<<"l","o","s","e","s">> :> <<"l","o","s","e">>)
  @@ (<<"l","o","s","i","n","g">> :> <<"l","o","s","e">>)
  @@ (<<"f","e","l","l">> :> <<"f","a","l","l">>)
  @@ (<<"f","a","l","l","s">> :> <<"f","a","l","l">>)
  @@ (<<"f","a","l","l","i","n","g">> :> <<"f","a","l","l">>)
  @@ (<<"f","a","l","l","e","n">> :> <<"f","a","l","l">>)
  @@ (<<"s","e","n","t">> :> <<"s","e","n","d">>)
  @@ (<<"s","e","n","d","s">> :> <<"s","e","n","d">>)
  @@ (<<"s","e","n","d","i","n","g">> :> <<"s","e","n","d">>)
  @@ (<<"b","u","i","l","t">> :> <<"b","u","i","l","d">>)
  @@ (<<"b","u","i","l","d","s">> :> <<"b","u","i","l","d">>)
  @@ (<<"b","u","i","l","d","i","n","g">> :> <<"b","u","i","l","d">>)
  @@ (<<"u","n","d","e","r","s","t","o","o","d">> :> <<"u","n","d","e","r","s","t","a","n","d">>)
  @@ (<<"u","n","d","e","r","s","t","a","n","d","s">> :> <<"u","n","d","e","r","s","t","a","n","d">>)
  @@ (<<"u","n","d","e","r","s","t","a","n","d","i","n","g">> :> <<"u","n","d","e","r","s","t","a","n","d">>)
  @@ (<<"d","r","a","w","n">> :> <<"d","r","a","w">>)
  @@ (<<"d","r","e","w">> :> <<"d","r","a","w">>)
  @@ (<<"d","r","a","w","s">> :> <<"d","r","a","w">>)
  @@ (<<"d","r","a","w","i","n","g">> :> <<"d","r","a","w">>)
  @@ (<<"b","r","o","k","e">> :> <<"b","r","e","a","k">>)
  @@ (<<"b","r","e","a","k","s">> :> <<"b","r","e","a","k">>)
  @@ (<<"b","r","e","a","k","i","n","g">> :> <<"b","r","e","a","k">>)
  @@ (<<"b","r","o","k","e","n">> :> <<"b","r","e","a","k">>)
  @@ (<<"s","p","e","n","t">> :> <<"s","p","e","n","d">>)
  @@ (<<"s","p","e","n","d","s">> :> <<"s","p","e","n","d">>)
  @@ (<<"s","p","e","n","d","i","n","g">> :> <<"s","p","e","n","d">>)
  @@ (<<"c","a","u","g","h","t">> :> <<"c","a","t","c","h">>)
  @@ (<<"c","a","t","c","h","e","s">> :> <<"c","a","t","c","h">>)
  @@ (<<"c","a","t","c","h","i","n","g">> :> <<"c","a","t","c","h">>)
  @@ (<<"b","o","u","g","h","t">> :> <<"b","u","y">>)
  @@ (<<"b","u","y","s">> :> <<"b","u","y">>)
  @@ (<<"b","u","y","i","n","g">> :> <<"b","u","y">>)
  @@ (<<"f","o","u","g","h","t">> :> <<"f","i","g","h","t">>)
  @@ (<<"f","i","g","h","t","s">> :> <<"f","i","g","h","t">>)
  @@ (<<"f","i","g","h","t","i","n","g">> :> <<"f","i","g","h","t">>)
  @@ (<<"t","a","u","g","h","t">> :> <<"t","e","a","c","h">>)
  @@ (<<"t","e","a","c","h","e","s">> :> <<"t","e","a","c","h">>)
  @@ (<<"t","e","a","c","h","i","n","g">> :> <<"t","e","a","c","h">>)
  @@ (<<"s","o","l","d">> :> <<"s","e","l","l">>)
  @@ (<<"s","e","l","l","s">> :> <<"s","e","l","l">>)
  @@ (<<"s","e","l","l","i","n","g">> :> <<"s","e","l","l">>)
  @@ (<<"s","o","u","g","h","t">> :> <<"s","e","e","k">>)
  @@ (<<"s","e","e","k","s">> :> <<"s","e","e","k">>)
  @@ (<<"s","e","e","k","i","n","g">> :> <<"s","e","e","k">>)
  @@ (<<"t","h","r","e","w">> :> <<"t","h","r","o","w">>)
  @@ (<<"t","h","r","o","w","s">> :> <<"t","h","r","o","w">>)
  @@ (<<"t","h","r","o","w","i","n","g">> :> <<"t","h","r","o","w">>)
  @@ (<<"t","h","r","o","w","n">> :> <<"t","h","r","o","w">>)
  @@ (<<"s","h","o","w","e","d">> :> <<"s","h","o","w">>)
  @@ (<<"s","h","o","w","s">> :> <<"s","h","o","w">>)
  @@ (<<"s","h","o","w","i","n","g">> :> <<"s","h","o","w">>)
  @@ (<<"s","h","o","w","n">> :> <<"s","h","o","w">>)
  @@ (<<"c","h","o","s","e">> :> <<"c","h","o","o","s","e">>)
  @@ (<<"c","h","o","o","s","e","s">> :> <<"c","h","o","o","s","e">>)
  @@ (<<"c","h","o","o","s","i","n","g">> :> <<"c","h","o","o","s","e">>)
  @@ (<<"c","h","o","s","e","n">> :> <<"c","h","o","o","s","e">>)
  @@ (<<"s","l","e","p","t">> :> <<"s","l","e","e","p">>)
  @@ (<<"s","l","e","e","p","s">> :> <<"s","l","e","e","p">>)
  @@ (<<"s","l","e","e","p","i","n","g">> :> <<"s","l","e","e","p">>)
  @@ (<<"w","o","r","n">> :> <<"w","e","a","r">>)
  @@ (<<"w","o","r","e">> :> <<"w","e","a","r">>)
  @@ (<<"w","e","a","r","s">> :> <<"w","e","a","r">>)
  @@ (<<"w","e","a","r","i","n","g">> :> <<"w","e","a","r">>)
  @@ (<<"w","o","n">> :> <<"w","i","n">>)
  @@ (<<"w","i","n","s">> :> <<"w","i","n">>)
  @@ (<<"w","i","n","n","i","n","g">> :> <<"w","i","n">>)
  @@ (<<"c","h","i","l","d","r","e","n">> :> <<"c","h","i","l","d">>)
  @@ (<<"m","e","n">> :> <<"m","a","n">>)
  @@ (<<"w","o","m","e","n">> :> <<"w","o","m","a","n">>)

IRREGULARS_query ==
     (<<"w","a","s">> :> <<"b","e">>)
  @@ (<<"w","e","r","e">> :> <<"b","e">>)
  @@ (<<"b","e","e","n">> :> <<"b","e">>)
  @@ (<<"b","e","i","n","g">> :> <<"b","e">>)
  @@ (<<"a","m">> :> <<"b","e">>)
  @@ (<<"i","s">> :> <<"b","e">>)
  @@ (<<"a","r","e">> :> <<"b","e">>)
  @@ (<<"h","a","d">> :> <<"h","a","v","e">>)
  @@ (<<"h","a","s">> :> <<"h","a","v","e">>)
  @@ (<<"h","a","v","i","n","g">> :> <<"h","a","v","e">>)
  @@ (<<"d","i","d">> :> <<"d","o">>)
  @@ (<<"d","o","e","s">> :> <<"d","o">>)
  @@ (<<"d","o","i","n","g">> :> <<"d","o">>)
  @@ (<<"d","o","n","e">> :> <<"d","o">>)
  @@ (<<"w","e","n","t">> :> <<"g","o">>)
  @@ (<<"g","o","e","s">> :> <<"g","o">>)
  @@ (<<"g","o","i","n","g">> :> <<"g","o">>)
  @@ (<<"g","o","n","e">> :> <<"g","o">>)
  @@ (<<"r","a","n">> :> <<"r","u","n">>)
  @@ (<<"r","u","n","n","i","n","g">> :> <<"r","u","n">>)
  @@ (<<"r","u","n","s">> :> <<"r","u","n">>)
  @@ (<<"s","a","i","d">> :> <<"s","a","y">>)
  @@ (<<"s","a","y","s">> :> <<"s","a","y">>)
  @@ (<<"s","a","y","i","n","g">> :> <<"s","a","y">>)
  @@ (<<"m","a","d","e">> :> <<"m","a","k","e">>)
  @@ (<<"m","a","k","e","s">> :> <<"m","a","k","e">>)
  @@ (<<"m","a","k","i","n","g">> :> <<"m","a","k","e">>)
  @@ (<<"t","o","o","k">> :> <<"t","a","k","e">>)
  @@ (<<"t","a","k","e","s">> :> <<"t","a","k","e">>)
  @@ (<<"t","a","k","i","n","g">> :> <<"t","a","k","e">>)
  @@ (<<"t","a","k","e","n">> :> <<"t","a","k","e">>)
  @@ (<<"c","a","m","e">> :> <<"c","o","m","e">>)
  @@ (<<"c","o","m","e","s">> :> <<"c","o","m","e">>)
  @@ (<<"c","o","m","i","n","g">> :> <<"c","o","m","e">>)
  @@ (<<"s","a","w">> :> <<"s","e","e">>)
  @@ (<<"s","e","e","s">> :> <<"s","e","e">>)
  @@ (<<"s","e","e","i","n","g">> :> <<"s","e","e">>)
  @@ (<<"s","e","e","n">> :> <<"s","e","e">>)
  @@ (<<"k","n","e","w">> :> <<"k","n","o","w">>)
  @@ (<<"k","n","o","w","s">> :> <<"k","n","o","w">>)
  @@ (<<"k","n","o","w","i","n","g">> :> <<"k","n","o","w">>)
  @@ (<<"k","n","o","w","n">> :> <<"k","n","o","w">>)
  @@ (<<"g","o","t">> :> <<"g","e","t">>)
  @@ (<<"g","e","t","s">> :> <<"g","e","t">>)
  @@ (<<"g","e","t","t","i","n","g">> :> <<"g","e","t">>)
  @@ (<<"g","o","t","t","e","n">> :> <<"g","e","t">>)
  @@ (<<"g","a","v","e">> :> <<"g","i","v","e">>)
  @@ (<<"g","i","v","e","s">> :> <<"g","i","v","e">>)
  @@ (<<"g","i","v","i","n","g">> :> <<"g","i","v","e">>)
  @@ (<<"g","i","v","e","n">> :> <<"g","i","v","e">>)
  @@ (<<"f","o","u","n","d">> :> <<"f","i","n","d">>)
  @@ (<<"f","i","n","d","s">> :> <<"f","i","n","d">>)
  @@ (<<"f","i","n","d","i","n","g">> :> <<"f","i","n","d">>)
  @@ (<<"t","h","o","u","g","h","t">> :> <<"t","h","i","n","k">>)
  @@ (<<"t","h","i","n","k","s">> :> <<"t","h","i","n","k">>)
  @@ (<<"t","h","i","n","k","i","n","g">> :> <<"t","h","i","n","k">>)
  @@ (<<"t","o","l","d">> :> <<"t","e","l","l">>)
  @@ (<<"t","e","l","l","s">> :> <<"t","e","l","l">>)
  @@ (<<"t","e","l","l","i","n","g">> :> <<"t","e","l","l">>)
  @@ (<<"b","e","c","a","m","e">> :> <<"b","e","c","o","m","e">>)
  @@ (<<"b","e","c","o","m","e","s">> :> <<"b","e","c","o","m","e">>)
  @@ (<<"b","e","c","o","m","i","n","g">> :> <<"b","e","c","o","m","e">>)
  @@ (<<"l","e","f","t">> :> <<"l","e","a","v","e">>)
  @@ (<<"l","e","a","v","e","s">> :> <<"l","e","a","v","e">>)
  @@ (<<"l","e","a","v","i","n","g">> :> <<"l","e","a","v","e">>)
  @@ (<<"f","e","l","t">> :> <<"f","e","e","l">>)
  @@ (<<"f","e","e","l","s">> :> <<"f","e","e","l">>)
  @@ (<<"f","e","e","l","i","n","g">> :> <<"f","e","e","l">>)
  @@ (<<"b","r","o","u","g","h","t">> :> <<"b","r","i","n","g">>)
  @@ (<<"b","r","i","n","g","s">> :> <<"b","r","i","n","g">>)
  @@ (<<"b","r","i","n","g","i","n","g">> :> <<"b","r","i","n","g">>)
  @@ (<<"b","e","g","a","n">> :> <<"b","e","g","i","n">>)
  @@ (<<"b","e","g","i","n","s">> :> <<"b","e","g","i","n">>)
  @@ (<<"b","e","g","i","n","n","i","n","g">> :> <<"b","e","g","i","n">>)
  @@ (<<"b","e","g","u","n">> :> <<"b","e","g","i","n">>)
  @@ (<<"k","e","p","t">> :> <<"k","e","e","p">>)
  @@ (<<"k","e","e","p","s">> :> <<"k","e","e","p">>)
  @@ (<<"k","e","e","p","i","n","g">> :> <<"k","e","e","p">>)
  @@ (<<"h","e","l","d">> :> <<"h","o","l","d">>)
  @@ (<<"h","o","l","d","s">> :> <<"h","o","l","d">>)
  @@ (<<"h","o","l","d","i","n","g">> :> <<"h","o","l","d">>)
  @@ (<<"w","r","o","t","e">> :> <<"w","r","i","t","e">>)
  @@ (<<"w","r","i","t","e","s">> :> <<"w","r","i","t","e">>)
  @@ (<<"w","r","i","t","i","n","g">> :> <<"w","r","i","t","e">>)
  @@ (<<"w","r","i","t","t","e","n">> :> <<"w","r","i","t","e">>)
  @@ (<<"s","t","o","o","d">> :> <<"s","t","a","n","d">>)
  @@ (<<"s","t","a","n","d","s">> :> <<"s","t","a","n","d">>)
  @@ (<<"s","t","a","n","d","i","n","g">> :> <<"s","t","a","n","d">>)
  @@ (<<"h","e","a","r","d">> :> <<"h","e","a","r">>)
  @@ (<<"h","e","a","r","s">> :> <<"h","e","a","r">>)
  @@ (<<"h","e","a","r","i","n","g">> :> <<"h","e","a","r">>)
  @@ (<<"m","e","a","n","t">> :> <<"m","e","a","n">>)
  @@ (<<"m","e","a","n","s">> :> <<"m","e","a","n">>)
  @@ (<<"m","e","a","n","i","n","g">> :> <<"m","e","a","n">>)
  @@ (<<"m","e","t">> :> <<"m","e","e","t">>)
  @@ (<<"m","e","e","t","s">> :> <<"m","e","e","t">>)
  @@ (<<"m","e","e","t","i","n","g">> :> <<"m","e","e","t">>)
  @@ (<<"p","a","i","d">> :> <<"p","a","y">>)
  @@ (<<"p","a","y","s">> :> <<"p","a","y">>)
  @@ (<<"p","a","y","i","n","g">> :> <<"p","a","y">>)
  @@ (<<"s","a","t">> :> <<"s","i","t">>)
  @@ (<<"s","i","t","s">> :> <<"s","i","t">>)
  @@ (<<"s","i","t","t","i","n","g">> :> <<"s","i","t">>)
  @@ (<<"s","p","o","k","e">> :> <<"s","p","e","a","k">>)
  @@ (<<"s","p","e","a","k","s">> :> <<"s","p","e","a","k">>)
  @@ (<<"s","p","e","a","k","i","n","g">> :> <<"s","p","e","a","k">>)
  @@ (<<"s","p","o","k","e","n">> :> <<"s","p","e","a","k">>)
  @@ (<<"l","e","d">> :> <<"l","e","a","d">>)
  @@ (<<"l","e","a","d","s">> :> <<"l","e","a","d">>)
  @@ (<<"l","e","a","d","i","n","g">> :> <<"l","e","a","d">>)
  @@ (<<"r","e","a","d","s">> :> <<"r","e","a","d">>)
  @@ (<<"r","e","a","d","i","n","g">> :> <<"r","e","a","d">>)
  @@ (<<"g","r","e","w">> :> <<"g","r","o","w">>)
  @@ (<<"g","r","o","w","s">> :> <<"g","r","o","w">>)
  @@ (<<"g","r","o","w","i","n","g">> :> <<"g","r","o","w">>)
  @@ (<<"g","r","o","w","n">> :> <<"g","r","o","w">>)
  @@ (<<"l","o","s","t">> :> <<"l","o","s","e">>)
  @@ (<<"l","o","s","e","s">> :> <<"l","o","s","e">>)
  @@ (<<"l","o","s","i","n","g">> :> <<"l","o","s","e">>)
  @@ (<<"f","e","l","l">> :> <<"f","a","l","l">>)
  @@ (<<"f","a","l","l","s">> :> <<"f","a","l","l">>)
  @@ (<<"f","a","l","l","i","n","g">> :> <<"f","a","l","l">>)
  @@ (<<"f","a","l","l","e","n">> :> <<"f","a","l","l">>)
  @@ (<<"s","e","n","t">> :> <<"s","e","n","d">>)
  @@ (<<"s","e","n","d","s">> :> <<"s","e","n","d">>)
  @@ (<<"s","e","n","d","i","n","g">> :> <<"s","e","n","d">>)
  @@ (<<"b","u","i","l","t">> :> <<"b","u","i","l","d">>)
  @@ (<<"b","u","i","l","d","s">> :> <<"b","u","i","l","d">>)
  @@ (<<"b","u","i","l","d","i","n","g">> :> <<"b","u","i","l","d">>)
  @@ (<<"u","n","d","e","r","s","t","o","o","d">> :> <<"u","n","d","e","r","s","t","a","n","d">>)
  @@ (<<"u","n","d","e","r","s","t","a","n","d","s">> :> <<"u","n","d","e","r","s","t","a","n","d">>)
  @@ (<<"u","n","d","e","r","s","t","a","n","d","i","n","g">> :> <<"u","n","d","e","r","s","t","a","n","d">>)
  @@ (<<"d","r","a","w","n">> :> <<"d","r","a","w">>)
  @@ (<<"d","r","e","w">> :> <<"d","r","a","w">>)
  @@ (<<"d","r","a","w","s">> :> <<"d","r","a","w">>)
  @@ (<<"d","r","a","w","i","n","g">> :> <<"d","r","a","w">>)
  @@ (<<"b","r","o","k","e">> :> <<"b","r","e","a","k">>)
  @@ (<<"b","r","e","a","k","s">> :> <<"b","r","e","a","k">>)
  @@ (<<"b","r","e","a","k","i","n","g">> :> <<"b","r","e","a","k">>)
  @@ (<<"b","r","o","k","e","n">> :> <<"b","r","e","a","k">>)
  @@ (<<"s","p","e","n","t">> :> <<"s","p","e","n","d">>)
  @@ (<<"s","p","e","n","d","s">> :> <<"s","p","e","n","d">>)
  @@ (<<"s","p","e","n","d","i","n","g">> :> <<"s","p","e","n","d">>)
  @@ (<<"c","a","u","g","h","t">> :> <<"c","a","t","c","h">>)
  @@ (<<"c","a","t","c","h","e","s">> :> <<"c","a","t","c","h">>)
  @@ (<<"c","a","t","c","h","i","n","g">> :> <<"c","a","t","c","h">>)
  @@ (<<"b","o","u","g","h","t">> :> <<"b","u","y">>)
  @@ (<<"b","u","y","s">> :> <<"b","u","y">>)
  @@ (<<"b","u","y","i","n","g">> :> <<"b","u","y">>)
  @@ (<<"f","o","u","g","h","t">> :> <<"f","i","g","h","t">>)
  @@ (<<"f","i","g","h","t","s">> :> <<"f","i","g","h","t">>)
  @@ (<<"f","i","g","h","t","i","n","g">> :> <<"f","i","g","h","t">>)
  @@ (<<"t","a","u","g","h","t">> :> <<"t","e","a","c","h">>)
  @@ (<<"t","e","a","c","h","e","s">> :> <<"t","e","a","c","h">>)
  @@ (<<"t","e","a","c","h","i","n","g">> :> <<"t","e","a","c","h">>)
  @@ (<<"s","o","l","d">> :> <<"s","e","l","l">>)
  @@ (<<"s","e","l","l","s">> :> <<"s","e","l","l">>)
  @@ (<<"s","e","l","l","i","n","g">> :> <<"s","e","l","l">>)
  @@ (<<"s","o","u","g","h","t">> :> <<"s","e","e","k">>)
  @@ (<<"s","e","e","k","s">> :> <<"s","e","e","k">>)
  @@ (<<"s","e","e","k","i","n","g">> :> <<"s","e","e","k">>)
  @@ (<<"t","h","r","e","w">> :> <<"t","h","r","o","w">>)
  @@ (<<"t","h","r","o","w","s">> :> <<"t","h","r","o","w">>)
  @@ (<<"t","h","r","o","w","i","n","g">> :> <<"t","h","r","o","w">>)
  @@ (<<"t","h","r","o","w","n">> :> <<"t","h","r","o","w">>)
  @@ (<<"s","h","o","w","e","d">> :> <<"s","h","o","w">>)
  @@ (<<"s","h","o","w","s">> :> <<"s","h","o","w">>)
  @@ (<<"s","h","o","w","i","n","g">> :> <<"s","h","o","w">>)
  @@ (<<"s","h","o","w","n">> :> <<"s","h","o","w">>)
  @@ (<<"c","h","o","s","e">> :> <<"c","h","o","o","s","e">>)
  @@ (<<"c","h","o","o","s","e","s">> :> <<"c","h","o","o","s","e">>)
  @@ (<<"c","h","o","o","s","i","n","g">> :> <<"c","h","o","o","s","e">>)
  @@ (<<"c","h","o","s","e","n">> :> <<"c","h","o","o","s","e">>)
  @@ (<<"s","l","e","p","t">> :> <<"s","l","e","e","p">>)
  @@ (<<"s","l","e","e","p","s">> :> <<"s","l","e","e","p">>)
  @@ (<<"s","l","e","e","p","i","n","g">> :> <<"s","l","e","e","p">>)
  @@ (<<"w","o","r","n">> :> <<"w","e","a","r">>)
  @@ (<<"w","o","r","e">> :> <<"w","e","a","r">>)
  @@ (<<"w","e","a","r","s">> :> <<"w","e","a","r">>)
  @@ (<<"w","e","a","r","i","n","g">> :> <<"w","e","a","r">>)
  @@ (<<"w","o","n">> :> <<"w","i","n">>)
  @@ (<<"w","i","n","s">> :> <<"w","i","n">>)
  @@ (<<"w","i","n","n","i","n","g">> :> <<"w","i","n">>)
  @@ (<<"c","h","i","l","d","r","e","n">> :> <<"c","h","i","l","d">>)
  @@ (<<"m","e","n">> :> <<"m","a","n">>)
  @@ (<<"w","o","m","e","n">> :> <<"w","o","m","a","n">>)

\* The Snowball English stemmer of the PyStemmer library (not part of the
\* repository), given by its result on the lowercase words of the model.
SnowballStem ==
     (<<"c","a","t","s">> :> <<"c","a","t">>)
  @@ (<<"c","a","t">> :> <<"c","a","t">>)
  @@ (<<"t","h","e">> :> <<"t","h","e">>)
  @@ (<<"r","a","n">> :> <<"r","a","n">>)
  @@ (<<"w","e","r","e">> :> <<"w","e","r","e">>)
  @@ (<<"r","u","n","n","i","n","g">> :> <<"r","u","n">>)
  @@ (<<"s","a","w">> :> <<"s","a","w">>)
  @@ (<<"m","e","n">> :> <<"m","e","n">>)

stemWord(w) == SnowballStem[w]

\* STEMMER_AVAILABLE of each module: the outcome of its own `import Stemmer`
STEMMER_AVAILABLE_index == stemmer_installed
STEMMER_AVAILABLE_query == stemmer_installed

\* a variant of normalize_word that looks the word up as written, not
\* lowercased: "Ran" misses the table
normalize_word_index_cased(word) ==
    IF Len(word) < 2 THEN word
    ELSE IF word \in DOMAIN IRREGULARS_index THEN IRREGULARS_index[word]
    ELSE IF STEMMER_AVAILABLE_index THEN stemWord(Lower(word))
    ELSE Lower(word)

\* a variant of normalize_word that asks the stemmer before the table
normalize_word_index_stem_first(word) ==
    IF Len(word) < 2 THEN word
    ELSE LET word_lower == Lower(word)
         IN  IF STEMMER_AVAILABLE_index /\ word_lower \in DOMAIN SnowballStem
               THEN stemWord(word_lower)
             ELSE IF word_lower \in DOMAIN IRREGULARS_index THEN IRREGULARS_index[word_lower]
             ELSE word_lower

\* build_index.normalize_word without its lru_cache
normalize_word_index_uncached(word) ==
    IF Len(word) < 2 THEN word
    ELSE LET word_lower == Lower(word)
         IN  IF word_lower \in DOMAIN IRREGULARS_index THEN IRREGULARS_index[word_lower]
             ELSE IF STEMMER_AVAILABLE_index THEN stemWord(word_lower)
             ELSE word_lower

\* build_index.normalize_word: @lru_cache returns the remembered result of an
\* earlier call with the same argument, and computes it otherwise
normalize_word_index(word) ==
    IF word \in DOMAIN cache THEN cache[word] ELSE normalize_word_index_uncached(word)

\* normalize_query.normalize_word
normalize_word_query(word) ==
    IF Len(word) < 2 THEN word
    ELSE LET word_lower == Lower(word)
         IN  IF word_lower \in DOMAIN IRREGULARS_query THEN IRREGULARS_query[word_lower]
             ELSE IF STEMMER_AVAILABLE_query THEN stemWord(word_lower)
             ELSE word_lower

(***************************************************************************)
(* The Index Builder                                                       *)
(***************************************************************************)
\* a variant of normalize_text that joins the normalized unique words, each at
\* its first occurrence
normalize_text_unique(text) ==
    LET words == FindAlphaWords(text)
        first == SelectSeq([i \in DOMAIN words |-> i],
                           LAMBDA i : \A j \in 1..(i - 1) : words[j] # words[i])
    IN  Join(<<Space>>, [k \in DOMAIN first |-> normalize_word_index(words[first[k]])])

\* build_index.normalize_text
normalize_text(text) ==
    LET words == FindAlphaWords(text)
        unique_words == Range(words)
        word_map == [w \in unique_words |-> normalize_word_index(w)]
        normalized_words == [i \in DOMAIN words |-> word_map[words[i]]]
    IN  Join(<<Space>>, normalized_words)

\* the entries normalize_text's calls leave in the lru_cache
CacheAfter(text) ==
    LET unique_words == Range(FindAlphaWords(text))
    IN  [w \in DOMAIN cache \cup unique_words |-> normalize_word_index(w)]

\* a variant of the loop body that writes the new record before the others
process_index_line_prepend ==
    /\ pc_index = "loop"
    /\ input_file # <<>>
    /\ LET stripped == RStripNewline(Head(input_file))
           parts == SplitOn(stripped, Tab)
       IN  IF stripped # <<>> /\ Len(parts) >= 5
             THEN /\ output_file' = <<Join(<<Tab>>, <<parts[1], parts[2], parts[3], parts[4],
                                        normalize_text(parts[4]), parts[5]>>) \o <<Newline>>>>
                                      \o output_file
                  /\ line_count' = line_count + 1
                  /\ cache' = CacheAfter(parts[4])
             ELSE UNCHANGED <<output_file, line_count, cache>>
    /\ input_file' = Tail(input_file)
    /\ UNCHANGED <<stemmer_installed, pc_index, fmt_vars, hint_vars, disc_vars>>

\* one iteration of process_index's loop over the input lines
process_index_line ==
    /\ pc_index = "loop"
    /\ input_file # <<>>
    /\ LET stripped == RStripNewline(Head(input_file))
           parts == SplitOn(stripped, Tab)
       IN  IF stripped # <<>> /\ Len(parts) >= 5
             THEN /\ output_file' = Append(output_file,
                        Join(<<Tab>>, <<parts[1], parts[2], parts[3], parts[4],
                                        normalize_text(parts[4]), parts[5]>>) \o <<Newline>>)
                  /\ line_count' = line_count + 1
                  /\ cache' = CacheAfter(parts[4])
             ELSE UNCHANGED <<output_file, line_count, cache>>
    /\ input_file' = Tail(input_file)
    /\ UNCHANGED <<stemmer_installed, pc_index, fmt_vars, hint_vars, disc_vars>>

\* the end of process_index: the input is exhausted
process_index_done ==
    /\ pc_index = "loop"
    /\ input_file = <<>>
    /\ pc_index' = "done"
    /\ UNCHANGED <<stemmer_installed, input_file, output_file, line_count, cache, fmt_vars,
                   hint_vars, disc_vars>>

(***************************************************************************)
(* Runs of the Index Builder                                               *)
(***************************************************************************)
\* the most chunks of text (and line ends) an enumerated input file holds
MaxFileItems == 4

Cats == <<"C","a","t","s">>
ran == <<"r","a","n">>

\* chunks of record text: a word followed by a blank, a digit or an ideograph
TextChunks == {w \o <<c>> : w \in {Cats, ran}, c \in {Space, "1", "U+4F60"}}

\* the four fields around the text of an enumerated record
RecordPrefix == <<"s","1",Tab,"2","0","2","4",Tab,"u","s","e","r",Tab>>
RecordSuffix == <<Tab,"/","p">>

RECURSIVE LinesOf(_, _, _)
\* the lines of the file spelled by a sequence of chunks, where the chunk
\* <<Newline>> ends a record; a last record may lack its newline
LinesOf(items, text, open) ==
    IF items = <<>>
      THEN IF open THEN <<RecordPrefix \o text \o RecordSuffix>> ELSE <<>>
    ELSE IF Head(items) = <<Newline>>
      THEN <<RecordPrefix \o text \o RecordSuffix \o <<Newline>>>>
             \o LinesOf(Tail(items), <<>>, FALSE)
    ELSE LinesOf(Tail(items), text \o Head(items), TRUE)

\* "The cats were running"
ExampleText == <<"T","h","e"," ","c","a","t","s"," ","w","e","r","e"," ",
                 "r","u","n","n","i","n","g">>
\* "I saw cats, cats! I Ran"
RepeatText == <<"I"," ","s","a","w"," ","c","a","t","s",","," ","c","a","t","s","!",
                " ","I"," ","R","a","n">>

SampleFiles ==
    { <<RecordPrefix \o ExampleText \o RecordSuffix \o <<Newline>>>>,
      <<RecordPrefix \o RepeatText \o RecordSuffix \o <<Newline>>,
        RecordPrefix \o ExampleText \o RecordSuffix>> }

InputFiles ==
    SampleFiles \cup
    { LinesOf(items, <<>>, FALSE) :
        items \in UNION {[1..n -> TextChunks \cup {<<Newline>>}] : n \in 0..MaxFileItems} }

\* extract_keywords is not running
IdleHint ==
    /\ jieba_installed = FALSE
    /\ hint_text = <<>>
    /\ max_keywords = 0
    /\ segments = <<>>
    /\ hint_keywords = <<>>
    /\ unique_keywords = <<>>
    /\ pc_hint = "idle"

\* data/english_freq.txt is not there, and jieba's dictionary has none of the
\* words of the messages
NoFrequencies ==
    /\ english_freq = <<>>
    /\ jieba_freq = <<>>

\* main has not come to the keyword file, which is not there
IdleWrite ==
    /\ write_mode = FALSE
    /\ keyword_file = [exists |-> FALSE, lines |-> <<>>]
    /\ existing = {}
    /\ new_keywords = <<>>
    /\ file_buffer = <<>>
    /\ observed = [seen |-> FALSE, keywords |-> {}]
    /\ run_modes = <<>>

\* the Discovery job is not running
IdleDiscovery ==
    /\ NoFrequencies
    /\ IdleWrite
    /\ disc_messages = <<>>
    /\ msg_index = 0
    /\ global_counts = <<>>
    /\ cooccurrence = <<>>
    /\ candidates = <<>>
    /\ pc_disc = "idle"

\* the Formatter is not running
IdleFormatter ==
    /\ sessions_limit = 0
    /\ messages_limit = 0
    /\ context = 0
    /\ query = <<>>
    /\ mode = "simple"
    /\ query_normalized = <<>>
    /\ current_session_id = <<>>
    /\ keywords = <<>>
    /\ keywords_normalized = <<>>
    /\ line = <<>>
    /\ nread = 0
    /\ sessions = <<>>
    /\ session_stats = <<>>
    /\ stdout = <<>>
    /\ stderr = <<>>
    /\ pc_fmt = "idle"

InitIndex ==
    /\ stemmer_installed \in BOOLEAN
    /\ IdleFormatter
    /\ IdleHint
    /\ IdleDiscovery
    /\ input_file \in InputFiles
    /\ output_file = <<>>
    /\ line_count = 0
    /\ cache = <<>>
    /\ pc_index = "loop"

NextIndex ==
    \/ process_index_line
    \/ process_index_done

\* Files of whole lines, well-formed or not
MaxIndexLines == 3

\* a record of 5 fields, one of 4, one of 6 (a line that already holds a
\* normalized text), and an empty line
LineCats == RecordPrefix \o Cats \o RecordSuffix \o <<Newline>>
LineRan == RecordPrefix \o ran \o RecordSuffix \o <<Newline>>
LineFourFields == RecordPrefix \o Cats \o <<Newline>>
LineSixFields == RecordPrefix \o Cats \o <<Tab, "c","a","t">> \o RecordSuffix \o <<Newline>>
LineEmpty == <<Newline>>

SampleLines == {LineCats, LineRan, LineFourFields, LineSixFields, LineEmpty}

InitIndexLines ==
    /\ stemmer_installed \in BOOLEAN
    /\ IdleFormatter
    /\ IdleHint
    /\ IdleDiscovery
    /\ input_file \in UNION {[1..n -> SampleLines] : n \in 0..MaxIndexLines}
    /\ output_file = <<>>
    /\ line_count = 0
    /\ cache = <<>>
    /\ pc_index = "loop"

SpecIndexLines == InitIndexLines /\ [][NextIndex]_vars

(***************************************************************************)
(* The query normalizer                                                    *)
(***************************************************************************)
RECURSIVE NormalizeTokens(_)
\* the loop of normalize_query over the whitespace-separated tokens
NormalizeTokens(tokens) ==
    IF tokens = <<>> THEN <<>>
    ELSE LET token == Head(tokens)
             words == FindAlphaWords(token)
         IN  (IF IsAscii(token)
                THEN [i \in DOMAIN words |-> normalize_word_query(words[i])]
                ELSE <<token>>)
             \o NormalizeTokens(Tail(tokens))

\* normalize_query.normalize_query
normalize_query(text) == Join(<<Space>>, NormalizeTokens(SplitWs(text)))

(***************************************************************************)
(* The Rank Formatter: keyword matching                                    *)
(***************************************************************************)
\* a literal pattern matches s at position i, ignoring case (re.IGNORECASE)
LiteralAt(pat, s, i) ==
    /\ i + Len(pat) - 1 <= Len(s)
    /\ \A k \in DOMAIN pat : LowerChar(s[i + k - 1]) = LowerChar(pat[k])

RECURSIVE CountLiteralFrom(_, _, _)
\* len(re.findall(re.escape(pat), s, re.IGNORECASE)) from position i: matches
\* are found left to right and do not overlap
CountLiteralFrom(pat, s, i) ==
    IF i > Len(s) THEN 0
    ELSE IF LiteralAt(pat, s, i) THEN 1 + CountLiteralFrom(pat, s, i + Len(pat))
    ELSE CountLiteralFrom(pat, s, i + 1)

RECURSIVE CountWordFrom(_, _, _)
\* len(re.findall(rf'\b{re.escape(pat)}\b', s, re.IGNORECASE)) from position i
CountWordFrom(pat, s, i) ==
    IF i > Len(s) THEN 0
    ELSE IF BoundaryAt(s, i) /\ LiteralAt(pat, s, i) /\ BoundaryAt(s, i + Len(pat))
      THEN 1 + CountWordFrom(pat, s, i + Len(pat))
    ELSE CountWordFrom(pat, s, i + 1)

\* a variant of PairMatches that counts an ASCII keyword anywhere in the
\* normalized text, inside a longer word too
PairMatches_anywhere(text, text_normalized, kws, kws_normalized, i) ==
    IF ~IsAscii(kws[i])
      THEN CountLiteralFrom(kws[i], text, 1)
      ELSE CountLiteralFrom(kws_normalized[i], text_normalized, 1)

\* the number of matches of the i-th (keyword, keyword_norm) pair of the zip of
\* kws (the parameter keywords) and kws_normalized (keywords_normalized)
PairMatches(text, text_normalized, kws, kws_normalized, i) ==
    IF ~IsAscii(kws[i])
      THEN CountLiteralFrom(kws[i], text, 1)
      ELSE CountWordFrom(kws_normalized[i], text_normalized, 1)

\* format-results.get_keyword_counts: the dict keyword -> count, as a function;
\* a later pair with the same keyword and a match overwrites an earlier one
get_keyword_counts(text, text_normalized, kws, kws_normalized) ==
    LET zipped == 1..Min({Len(kws), Len(kws_normalized)})
        hit == {i \in zipped :
                  PairMatches(text, text_normalized, kws, kws_normalized, i) > 0}
    IN  [kw \in {kws[i] : i \in hit} |->
           PairMatches(text, text_normalized, kws, kws_normalized,
                       Max({i \in hit : kws[i] = kw}))]

\* format-results.parse_keywords
parse_keywords(q, m) ==
    LET groups == SplitWs(q)
        terms == IF m = "strict"
                   THEN Flatten([i \in DOMAIN groups |-> SplitOn(groups[i], "|")])
                   ELSE groups
    IN  [i \in DOMAIN terms |-> Lower(terms[i])]

(***************************************************************************)
(* The Rank Formatter: main                                                *)
(***************************************************************************)
\* min=3 and max=8 of the auto-cutoff, its 70% threshold in tenths, the strict
\* mode floor, and the length of a short session id
CutoffMin == 3
CutoffMax == 8
CutoffTenths == 7
StrictMinMatches == 5
ShortIdLen == 8

RECURSIVE SplitMax(_, _, _)
\* s.split(c, maxsplit)
SplitMax(s, c, maxsplit) ==
    IF maxsplit = 0 \/ \A i \in DOMAIN s : s[i] # c THEN <<s>>
    ELSE LET k == Min({i \in DOMAIN s : s[i] = c})
         IN  <<SubSeq(s, 1, k - 1)>> \o SplitMax(SubSeq(s, k + 1, Len(s)), c, maxsplit - 1)

\* the code point order of the characters timestamps are made of
DigitOrder == <<"0","1","2","3","4","5","6","7","8","9">>
Code(c) == CHOOSE i \in DOMAIN DigitOrder : DigitOrder[i] = c

\* a < b on str: lexicographic by code point
StrLess(a, b) ==
    \E i \in 1..(Len(b)) :
        /\ \A k \in 1..(i - 1) : k <= Len(a) /\ a[k] = b[k]
        /\ (i > Len(a) \/ (i <= Len(a) /\ Code(a[i]) < Code(b[i])))

\* max() over a non-empty set of str
StrMax(S) == CHOOSE x \in S : \A y \in S : ~StrLess(x, y)

\* the position of a session in the sessions dict, 0 when it has no entry
SessionIndex(dict, session_id) ==
    IF \E i \in DOMAIN dict : dict[i].session_id = session_id
      THEN CHOOSE i \in DOMAIN dict : dict[i].session_id = session_id
      ELSE 0

\* a variant of AddMessage that keeps every row of a session
AddMessage_every_row(dict, session_id, msg) ==
    LET i == SessionIndex(dict, session_id)
    IN  IF i = 0
          THEN Append(dict, [session_id |-> session_id, msgs |-> <<msg>>])
          ELSE [dict EXCEPT ![i].msgs = Append(@, msg)]

\* sessions[session_id][key] = {...} unless the key is there: dicts keep the
\* order of insertion, of the sessions and of the messages of a session
AddMessage(dict, session_id, msg) ==
    LET i == SessionIndex(dict, session_id)
    IN  IF i = 0
          THEN Append(dict, [session_id |-> session_id, msgs |-> <<msg>>])
        ELSE IF \E j \in DOMAIN dict[i].msgs :
                  /\ dict[i].msgs[j].timestamp = msg.timestamp
                  /\ dict[i].msgs[j].type = msg.type
                  /\ dict[i].msgs[j].text = msg.text
          THEN dict
        ELSE [dict EXCEPT ![i].msgs = Append(@, msg)]

\* a variant of the test of the active session that never skips a row
IsCurrentSession_never(session_id) == FALSE

\* `if current_session_id and session_id == current_session_id`
IsCurrentSession(session_id) ==
    current_session_id # <<>> /\ session_id = current_session_id

\* one iteration of main's loop over sys.stdin
read_row(l) ==
    /\ pc_fmt = "read"
    /\ line' = l
    /\ nread' = nread + 1
    /\ LET parts == SplitMax(RStripNewline(l), Tab, 5)
       IN  IF Len(parts) = 6 /\ ~IsCurrentSession(parts[1])
             THEN sessions' = AddMessage(sessions, parts[1],
                                 [timestamp |-> parts[2], type |-> parts[3],
                                  text |-> parts[4], text_normalized |-> parts[5],
                                  project_path |-> parts[6]])
             ELSE sessions' = sessions
    /\ UNCHANGED <<fmt_args, session_stats, stdout, stderr, pc_fmt>>
    /\ UNCHANGED <<stemmer_installed, index_vars, hint_vars, disc_vars>>

\* the end of the input: "No matches found." and return, or go on to the statistics
end_of_input ==
    /\ pc_fmt = "read"
    /\ IF sessions = <<>>
         THEN /\ stdout' = <<[kind |-> "no_matches"]>>
              /\ pc_fmt' = "done"
         ELSE /\ stdout' = stdout
              /\ pc_fmt' = "stats"
    /\ UNCHANGED <<fmt_args, line, nread, sessions, session_stats, stderr>>
    /\ UNCHANGED <<stemmer_installed, index_vars, hint_vars, disc_vars>>

\* msg['keyword_counts'] and msg['keyword_hits'] of the messages of a session
WithCounts(msgs) ==
    [j \in DOMAIN msgs |->
        LET c == get_keyword_counts(msgs[j].text, msgs[j].text_normalized,
                                    keywords, keywords_normalized)
        IN  [timestamp |-> msgs[j].timestamp, type |-> msgs[j].type,
             text |-> msgs[j].text, text_normalized |-> msgs[j].text_normalized,
             project_path |-> msgs[j].project_path,
             keyword_counts |-> c, keyword_hits |-> Cardinality(DOMAIN c)]]

RECURSIVE SumCounts(_, _)
\* the sum of the counts of one keyword over the messages of a session
SumCounts(msgs, kw) ==
    IF msgs = <<>> THEN 0
    ELSE (IF kw \in DOMAIN Head(msgs).keyword_counts
            THEN Head(msgs).keyword_counts[kw] ELSE 0)
         + SumCounts(Tail(msgs), kw)

\* session_keyword_counts: the keywords some message of the session counts
SessionKeywordCounts(msgs) ==
    [kw \in UNION {DOMAIN msgs[j].keyword_counts : j \in DOMAIN msgs} |->
        SumCounts(msgs, kw)]

\* a variant of Weight that counts down to 0, not to 1
Weight_to_zero(n, i) == n - i - 1

\* a variant of Weight that grows along the keyword list
Weight_ascending(n, i) == i + 1

\* weight = n - i of the loop over enumerate(keywords), i counted from 0
Weight(n, i) == n - i

RECURSIVE WeightedLoop(_, _, _, _)
\* the loop `for i, kw in enumerate(keywords)` from index i on
WeightedLoop(kws, counts, i, weighted_score) ==
    IF i >= Len(kws) THEN weighted_score
    ELSE WeightedLoop(kws, counts, i + 1,
            weighted_score
              + (IF kws[i + 1] \in DOMAIN counts THEN counts[kws[i + 1]] ELSE 0)
                  * Weight(Len(kws), i))

\* the dict main appends to session_stats for one session
SessionStat(s) ==
    LET msgs == WithCounts(s.msgs)
        session_keyword_counts == SessionKeywordCounts(msgs)
    IN  [session_id |-> s.session_id,
         hits |-> IF mode = "simple" THEN Cardinality(DOMAIN session_keyword_counts) ELSE 0,
         matches |-> Len(msgs),
         weighted_score |-> WeightedLoop(keywords, session_keyword_counts, 0, 0),
         timestamp |-> StrMax({msgs[j].timestamp : j \in DOMAIN msgs}),
         project_path |-> msgs[1].project_path,
         messages |-> msgs,
         keyword_counts |-> session_keyword_counts]

\* the loop over sessions.items() that fills session_stats
compute_stats ==
    /\ pc_fmt = "stats"
    /\ session_stats' = [i \in DOMAIN sessions |-> SessionStat(sessions[i])]
    /\ pc_fmt' = "rank"
    /\ UNCHANGED <<fmt_args, line, nread, sessions, stdout, stderr>>
    /\ UNCHANGED <<stemmer_installed, index_vars, hint_vars, disc_vars>>

\* a variant of the sort key of simple mode: the weighted score alone
SimpleKeyGreater_score_only(x, y) == x.weighted_score > y.weighted_score

\* the sort key of simple mode is greater for x than for y
SimpleKeyGreater(x, y) ==
    \/ x.weighted_score > y.weighted_score
    \/ /\ x.weighted_score = y.weighted_score
       /\ \/ x.hits > y.hits
          \/ /\ x.hits = y.hits
             /\ \/ x.matches > y.matches
                \/ x.matches = y.matches /\ StrLess(y.timestamp, x.timestamp)

\* the sort key of strict mode is greater for x than for y
StrictKeyGreater(x, y) ==
    \/ x.matches > y.matches
    \/ x.matches = y.matches /\ StrLess(y.timestamp, x.timestamp)

KeyGreater(x, y) ==
    IF mode = "simple" THEN SimpleKeyGreater(x, y) ELSE StrictKeyGreater(x, y)

\* list.sort(key=..., reverse=True): descending and stable, so an element goes
\* behind the elements of greater key and the equal ones that preceded it
SortDescending(stats) ==
    LET place(i) == 1 + Cardinality({j \in DOMAIN stats :
                          \/ KeyGreater(stats[j], stats[i])
                          \/ ~KeyGreater(stats[i], stats[j]) /\ j < i})
    IN  [p \in DOMAIN stats |-> stats[CHOOSE i \in DOMAIN stats : place(i) = p]]

\* a variant of the floor that lets a session of 4 matches through
StrictFloor_four(stats) == SelectSeq(stats, LAMBDA s : s.matches >= StrictMinMatches - 1)

\* [s for s in session_stats if s['matches'] >= 5]
StrictFloor(stats) == SelectSeq(stats, LAMBDA s : s.matches >= StrictMinMatches)

\* the ranking of main: the sort of simple mode, the floor and sort of strict mode
rank ==
    /\ pc_fmt = "rank"
    /\ session_stats' = IF mode = "simple"
                          THEN SortDescending(session_stats)
                          ELSE SortDescending(StrictFloor(session_stats))
    /\ pc_fmt' = "cutoff"
    /\ UNCHANGED <<fmt_args, line, nread, sessions, stdout, stderr>>
    /\ UNCHANGED <<stemmer_installed, index_vars, hint_vars, disc_vars>>

RECURSIVE SumScores(_)
\* sum(s['weighted_score'] for s in session_stats)
SumScores(stats) ==
    IF stats = <<>> THEN 0 ELSE Head(stats).weighted_score + SumScores(Tail(stats))

\* a variant of the threshold test: more than 70%
ReachesThreshold_above(cumsum, total_score) == 10 * cumsum > CutoffTenths * total_score

\* cumsum >= total_score * 0.7: the scores are integers, and on integers the
\* float comparison agrees with 10 * cumsum >= 7 * total_score
ReachesThreshold(cumsum, total_score) == 10 * cumsum >= CutoffTenths * total_score

RECURSIVE CutoffLoop(_, _, _, _)
\* the loop `for i, s in enumerate(session_stats)` from index i on: cutoff_idx
CutoffLoop(stats, i, cumsum, total_score) ==
    IF ReachesThreshold(cumsum + stats[i + 1].weighted_score, total_score)
         \/ i + 1 = Len(stats)
      THEN i + 1
      ELSE CutoffLoop(stats, i + 1, cumsum + stats[i + 1].weighted_score, total_score)

\* stats[:n] for n >= 0
Prefix(stats, n) == SubSeq(stats, 1, Min({n, Len(stats)}))

\* the auto-cutoff of main
AutoCutoff(stats, limit) ==
    IF stats # <<>>
      THEN LET cutoff_idx == CutoffLoop(stats, 0, 0, SumScores(stats))
           IN  Prefix(stats, Max({CutoffMin, Min({CutoffMax, cutoff_idx})}))
      ELSE Prefix(stats, limit)

cutoff ==
    /\ pc_fmt = "cutoff"
    /\ session_stats' = AutoCutoff(session_stats, sessions_limit)
    /\ pc_fmt' = "render"
    /\ UNCHANGED <<fmt_args, line, nread, sessions, stdout, stderr>>
    /\ UNCHANGED <<stemmer_installed, index_vars, hint_vars, disc_vars>>

\* s['session_id'][:8]
ShortId(session_id) == SubSeq(session_id, 1, Min({ShortIdLen, Len(session_id)}))

\* the summary line of a session, by its parts
SummaryLine(s) ==
    [kind |-> "session", short_id |-> ShortId(s.session_id),
     kw_parts |-> SelectSeq(keywords, LAMBDA kw : kw \in DOMAIN s.keyword_counts),
     matches |-> s.matches, date |-> SubSeq(s.timestamp, 1, Min({10, Len(s.timestamp)})),
     project |-> s.project_path]

(***************************************************************************)
(* The Rank Formatter: snippets                                            *)
(***************************************************************************)
\* keyword.replace('_', '.')
SnippetPattern(keyword) == [k \in DOMAIN keyword |-> IF keyword[k] = "_" THEN "." ELSE keyword[k]]

\* re.search(pattern, ...) raises re.error: the pattern is not a regular
\* expression. The patterns of the model are made of letters, digits, ".",
\* "|" and "(", and of these a "(" opens a group that nothing closes.
RaisesReError(pattern) == "(" \in Range(pattern)

\* a sequence of literals and "." matches s at position i, ignoring case
BranchAt(branch, s, i) ==
    /\ i + Len(branch) - 1 <= Len(s)
    /\ \A k \in DOMAIN branch :
          IF branch[k] = "." THEN s[i + k - 1] # Newline
          ELSE LowerChar(s[i + k - 1]) = LowerChar(branch[k])

\* one of the branches of the pattern, which "|" separates, matches s at i
PatternAt(pattern, s, i) ==
    \E b \in Range(SplitOn(pattern, "|")) : BranchAt(b, s, i)

\* re.search(pattern, s, re.IGNORECASE).start(), counted from 0; -1 for None
SearchStart(pattern, s) ==
    LET starts == {i \in 1..(Len(s) + 1) : PatternAt(pattern, s, i)}
    IN  IF starts = {} THEN -1 ELSE Min(starts) - 1

RECURSIVE KeywordLoop(_, _, _)
\* the loop `for keyword in keywords` of extract_snippet from index i on: the
\* position of the first keyword found, -1 when none is, or the error raised
KeywordLoop(kws, text_lower, i) ==
    IF i > Len(kws) THEN [raised |-> FALSE, pos |-> -1]
    ELSE IF RaisesReError(SnippetPattern(kws[i])) THEN [raised |-> TRUE, pos |-> -1]
    ELSE IF SearchStart(SnippetPattern(kws[i]), text_lower) >= 0
      THEN [raised |-> FALSE, pos |-> SearchStart(SnippetPattern(kws[i]), text_lower)]
    ELSE KeywordLoop(kws, text_lower, i + 1)

RECURSIVE NormalizedLoop(_, _, _, _)
\* the loop `for keyword_norm in keywords_normalized` from index i on: the
\* first keyword that is a word of the normalized text ends the loop
NormalizedLoop(kws_normalized, words, norm_words, i) ==
    IF i > Len(kws_normalized) THEN -1
    ELSE IF \E j \in DOMAIN norm_words : norm_words[j] = kws_normalized[i]
      THEN LET idx == Min({j \in DOMAIN norm_words : norm_words[j] = kws_normalized[i]}) - 1
           IN  IF idx < Len(words)
                 THEN Len(Flatten([k \in 1..idx |-> words[k] \o <<Space>>]))
                 ELSE -1
    ELSE NormalizedLoop(kws_normalized, words, norm_words, i + 1)

Ellipsis == <<".", ".", ".">>

\* text[start:end] for 0 <= start
Slice(text, start, end) == SubSeq(text, start + 1, Min({end, Len(text)}))

\* a variant of SnippetAround that puts half of the context before the position
SnippetAround_centered(text, pos, ctx) ==
    IF pos >= 0
      THEN LET before == ctx \div 2
               after == ctx - before
               start == Max({0, pos - before})
               end == Min({Len(text), pos + after})
           IN  (IF start > 0 THEN Ellipsis ELSE <<>>)
                 \o Slice(text, start, end)
                 \o (IF end < Len(text) THEN Ellipsis ELSE <<>>)
      ELSE Slice(text, 0, ctx) \o Ellipsis

\* the snippet around position pos, or the start of the text when pos < 0
SnippetAround(text, pos, ctx) ==
    IF pos >= 0
      THEN LET before == ctx \div 3
               after == ctx - before
               start == Max({0, pos - before})
               end == Min({Len(text), pos + after})
           IN  (IF start > 0 THEN Ellipsis ELSE <<>>)
                 \o Slice(text, start, end)
                 \o (IF end < Len(text) THEN Ellipsis ELSE <<>>)
      ELSE Slice(text, 0, ctx) \o Ellipsis

\* a variant of extract_snippet that returns the text as it is only when it
\* is shorter than context
extract_snippet_shorter(text, text_normalized, kws, kws_normalized, ctx) ==
    IF Len(text) < ctx THEN [raised |-> FALSE, text |-> text]
    ELSE LET text_lower == Lower(text)
             first == KeywordLoop(kws, text_lower, 1)
             pos == IF first.pos >= 0 THEN first.pos
                    ELSE NormalizedLoop(kws_normalized, SplitWs(text_lower),
                                        SplitWs(text_normalized), 1)
         IN  IF first.raised THEN [raised |-> TRUE, text |-> <<>>]
             ELSE [raised |-> FALSE, text |-> SnippetAround(text, pos, ctx)]

\* extract_snippet: the text returned, or the error raised
extract_snippet(text, text_normalized, kws, kws_normalized, ctx) ==
    IF Len(text) <= ctx THEN [raised |-> FALSE, text |-> text]
    ELSE LET text_lower == Lower(text)
             first == KeywordLoop(kws, text_lower, 1)
             pos == IF first.pos >= 0 THEN first.pos
                    ELSE NormalizedLoop(kws_normalized, SplitWs(text_lower),
                                        SplitWs(text_normalized), 1)
         IN  IF first.raised THEN [raised |-> TRUE, text |-> <<>>]
             ELSE [raised |-> FALSE, text |-> SnippetAround(text, pos, ctx)]

RECURSIVE ByHitsFrom(_, _)
\* sorted(s['messages'], key=lambda m: m['keyword_hits'], reverse=True): the
\* messages of h hits, then those of fewer, each group in its order
ByHitsFrom(msgs, h) ==
    IF h < 0 THEN <<>>
    ELSE SelectSeq(msgs, LAMBDA m : m.keyword_hits = h) \o ByHitsFrom(msgs, h - 1)

RECURSIVE MessageLoop(_, _, _)
\* the loop over sorted_msgs[:messages_limit] from index j on, after the
\* lines out: the lines printed, and whether extract_snippet raised
MessageLoop(msgs, j, out) ==
    IF j > Len(msgs) THEN [raised |-> FALSE, out |-> out]
    ELSE LET snippet == extract_snippet(msgs[j].text, msgs[j].text_normalized,
                                        keywords, keywords_normalized, context)
         IN  IF snippet.raised THEN [raised |-> TRUE, out |-> out]
             ELSE MessageLoop(msgs, j + 1,
                     Append(out, [kind |-> "message",
                                  role |-> IF msgs[j].type = <<"u","s","e","r">>
                                             THEN "[user]" ELSE "[asst]",
                                  text |-> snippet.text]))

\* the lines main prints for one session after those of out
SessionLines(s, out) ==
    IF messages_limit > 0
      THEN LET shown == MessageLoop(Prefix(ByHitsFrom(s.messages, Len(keywords)),
                                           messages_limit),
                                    1, Append(out, SummaryLine(s)))
           IN  IF shown.raised THEN shown
               ELSE [raised |-> FALSE,
                     out |-> (IF s.matches > messages_limit
                                THEN Append(shown.out, [kind |-> "more",
                                                        count |-> s.matches - messages_limit])
                                ELSE shown.out)
                             \o <<[kind |-> "blank"]>>]
      ELSE [raised |-> FALSE, out |-> Append(out, SummaryLine(s))]

RECURSIVE SessionLoop(_, _, _)
\* the loop `for s in session_stats` from index i on
SessionLoop(stats, i, out) ==
    IF i > Len(stats) THEN [raised |-> FALSE, out |-> out]
    ELSE LET printed == SessionLines(stats[i], out)
         IN  IF printed.raised THEN printed
             ELSE SessionLoop(stats, i + 1, printed.out)

\* the output of main: for each kept session a summary line and the snippets
\* of its first messages_limit messages, then the footer on stdout and the
\* short ids on stderr. An error extract_snippet raises ends the program
\* with a traceback after the lines printed so far.
render ==
    /\ pc_fmt = "render"
    /\ LET printed == SessionLoop(session_stats, 1, <<>>)
       IN  IF printed.raised
             THEN /\ stdout' = printed.out
                  /\ stderr' = stderr
                  /\ pc_fmt' = "raised"
             ELSE /\ stdout' = Append(printed.out,
                                  [kind |-> "footer", total_sessions |-> Len(session_stats),
                                   total_keywords |-> Len(keywords)])
                  /\ stderr' = [i \in DOMAIN session_stats |->
                                   ShortId(session_stats[i].session_id)]
                  /\ pc_fmt' = "done"
    /\ UNCHANGED <<fmt_args, line, nread, sessions, session_stats>>
    /\ UNCHANGED <<stemmer_installed, index_vars, hint_vars, disc_vars>>

(***************************************************************************)
(* Runs of the Rank Formatter                                              *)
(***************************************************************************)
\* the most lines a simple-mode run reads, the number of timestamps of the
\* rows of a strict-mode run, the most sessions of a cutoff run
MaxRows == 3
MaxStrictTs == 7
MaxCutoffSessions == 12
\* the longest raw text and the most words of a normalized text of a matching run
MaxRawLen == 3
MaxNormWords == 2

\* the Index Builder is not running
IdleIndex ==
    /\ input_file = <<>>
    /\ output_file = <<>>
    /\ line_count = 0
    /\ cache = <<>>
    /\ pc_index = "idle"

MakeLine(fields) == Join(<<Tab>>, fields) \o <<Newline>>

\* texts of index rows with the normalized_text column an Index Builder with
\* the stemmer wrote for them: "Cats", "ran", "ran ran", "I", "Cats ran"
RowCats == [text |-> Cats, norm |-> <<"c","a","t">>]
RowRan == [text |-> ran, norm |-> <<"r","u","n">>]
RowRanRan == [text |-> <<"r","a","n"," ","r","a","n">>,
              norm |-> <<"r","u","n"," ","r","u","n">>]
RowI == [text |-> <<"I">>, norm |-> <<"I">>]
RowCatsRan == [text |-> <<"C","a","t","s"," ","r","a","n">>,
               norm |-> <<"c","a","t"," ","r","u","n">>]

User == <<"u","s","e","r">>
ProjectPath == <<"/","p">>
SessionId(c) == <<"s", c>>

IndexLine(session_id, timestamp, row) ==
    MakeLine(<<session_id, timestamp, User, row.text, row.norm, ProjectPath>>)

\* "cats ran", "cats ran ran", "cats|cat ran" and "Cats I É 好好" (the last
\* two characters U+597D)
QueryCatsRan == <<"c","a","t","s"," ","r","a","n">>
QueryRepeat == <<"c","a","t","s"," ","r","a","n"," ","r","a","n">>
QueryMixed == <<"C","a","t","s"," ","I"," ","U+00C9"," ","U+597D","U+597D">>
QueryStrict == <<"c","a","t","s","|","c","a","t"," ","r","a","n">>

\* the start of main, after the arguments and the environment are read
StartFormatter(limit, q, m, active) ==
    /\ stemmer_installed = TRUE
    /\ IdleIndex
    /\ IdleHint
    /\ IdleDiscovery
    /\ sessions_limit = limit
    /\ messages_limit = 0
    /\ context = 0
    /\ query = q
    /\ mode = m
    /\ query_normalized = normalize_query(q)
    /\ current_session_id = active
    /\ keywords = parse_keywords(query, mode)
    /\ keywords_normalized = SplitWs(Lower(query_normalized))
    /\ line = <<>>
    /\ nread = 0
    /\ sessions = <<>>
    /\ session_stats = <<>>
    /\ stdout = <<>>
    /\ stderr = <<>>
    /\ pc_fmt = "read"

AfterInput ==
    \/ end_of_input
    \/ compute_stats
    \/ rank
    \/ cutoff
    \/ render

\* Simple mode: any of these lines, in any order, repeated or not
SimpleLines ==
    {IndexLine(SessionId(r[1]), <<r[2]>>, r[3]) :
        r \in {<<"1", "1", RowCats>>, <<"1", "1", RowRanRan>>, <<"1", "2", RowRanRan>>,
               <<"2", "1", RowCats>>, <<"2", "2", RowCats>>, <<"2", "2", RowRanRan>>,
               <<"3", "2", RowCats>>, <<"3", "1", RowRanRan>>}}

\* three invocations: session limit, query, active session
InitSimple ==
    \/ StartFormatter(1, QueryCatsRan, "simple", <<>>)
    \/ StartFormatter(2, QueryCatsRan, "simple", SessionId("1"))
    \/ StartFormatter(1, QueryRepeat, "simple", <<>>)

NextSimple ==
    \/ nread < MaxRows /\ \E l \in SimpleLines : read_row(l)
    \/ AfterInput

SpecSimple == InitSimple /\ [][NextSimple]_vars

\* Strict mode: the rows of two sessions, those of a session with consecutive
\* timestamps and without repetition
StrictTimestamps == {<<DigitOrder[i + 1]>> : i \in 1..MaxStrictTs}

\* the timestamp follows the one of the last message read of the session
IsNextOfSession(session_id, timestamp) ==
    LET i == SessionIndex(sessions, session_id)
    IN  i # 0 => Code(timestamp[1])
                   = Code(sessions[i].msgs[Len(sessions[i].msgs)].timestamp[1]) + 1

InitStrict == StartFormatter(1, QueryStrict, "strict", <<>>)

NextStrict ==
    \/ \E c \in {"1", "2"}, t \in StrictTimestamps :
          /\ IsNextOfSession(SessionId(c), t)
          /\ read_row(IndexLine(SessionId(c), t, RowCatsRan))
    \/ AfterInput

SpecStrict == InitStrict /\ [][NextStrict]_vars

\* The cutoff: main has read n2 + n1 + n0 sessions of one message each, whose
\* weighted scores for "cats ran" are 2 ("Cats"), 1 ("ran") and 0 ("I")
SessionNames == <<"a","b","c","d","e","f","g","h","i","j","k","l","m","n">>

OneMessage(row) ==
    <<[timestamp |-> <<"1">>, type |-> User, text |-> row.text,
       text_normalized |-> row.norm, project_path |-> ProjectPath]>>

SessionsOf(n2, n1, n0) ==
    [i \in 1..(n2 + n1 + n0) |->
        [session_id |-> SessionId(SessionNames[i]),
         msgs |-> OneMessage(IF i <= n2 THEN RowCats
                             ELSE IF i <= n2 + n1 THEN RowRan ELSE RowI)]]

InitCutoff ==
    \E n2 \in 0..MaxCutoffSessions, n1 \in 0..MaxCutoffSessions, n0 \in 0..MaxCutoffSessions :
        /\ n2 + n1 + n0 \in 1..MaxCutoffSessions
        /\ stemmer_installed = TRUE
        /\ IdleIndex
        /\ IdleHint
        /\ IdleDiscovery
        /\ sessions_limit = 1
        /\ messages_limit = 0
        /\ context = 0
        /\ query = QueryCatsRan
        /\ mode = "simple"
        /\ query_normalized = normalize_query(QueryCatsRan)
        /\ current_session_id = <<>>
        /\ keywords = parse_keywords(query, mode)
        /\ keywords_normalized = SplitWs(Lower(query_normalized))
        /\ line = <<>>
        /\ nread = n2 + n1 + n0
        /\ sessions = SessionsOf(n2, n1, n0)
        /\ session_stats = <<>>
        /\ stdout = <<>>
        /\ stderr = <<>>
        /\ pc_fmt = "stats"

NextCutoff ==
    \/ compute_stats
    \/ rank
    \/ cutoff
    \/ render

SpecCutoff == InitCutoff /\ [][NextCutoff]_vars

\* Keyword matching: main has read one message, whose text is any short string
\* of non-ASCII letters and whose normalized text is any few words
RawTexts == UNION {[1..n -> {"U+597D", "U+00C9", "U+00E9"}] : n \in 0..MaxRawLen}
NormTexts ==
    {Join(<<Space>>, ws) :
        ws \in UNION {[1..n -> {<<"c","a","t">>, <<"c","a","t","s">>, <<"I">>}] :
                        n \in 0..MaxNormWords}}

InitCounts ==
    \E raw \in RawTexts, norm \in NormTexts :
        /\ stemmer_installed = TRUE
        /\ IdleIndex
        /\ IdleHint
        /\ IdleDiscovery
        /\ sessions_limit = 1
        /\ messages_limit = 0
        /\ context = 0
        /\ query = QueryMixed
        /\ mode = "simple"
        /\ query_normalized = normalize_query(QueryMixed)
        /\ current_session_id = <<>>
        /\ keywords = parse_keywords(query, mode)
        /\ keywords_normalized = SplitWs(Lower(query_normalized))
        /\ line = <<>>
        /\ nread = 1
        /\ sessions = <<[session_id |-> SessionId("1"),
                         msgs |-> OneMessage([text |-> raw, norm |-> norm])]>>
        /\ session_stats = <<>>
        /\ stdout = <<>>
        /\ stderr = <<>>
        /\ pc_fmt = "stats"

SpecCounts == InitCounts /\ [][NextCutoff]_vars

\* Snippets: main has read one or two sessions; the query, its normalized
\* form, the number of messages shown and the context width are any of these
MaxMessagesLimit == 2
MaxContext == 8

\* "cats", "run" (the normalized form of "ran"), "dog", "c_ts", "dog|ran",
\* "c(" and "ran c(", each with the normalized query passed along
SnippetQueries ==
    {<<<<"c","a","t","s">>, <<"c","a","t">>>>,
     <<<<"r","u","n">>, <<"r","u","n">>>>,
     <<<<"d","o","g">>, <<"d","o","g">>>>,
     <<<<"c","_","t","s">>, <<"c","_","t","s">>>>,
     <<<<"d","o","g","|","r","a","n">>, <<"d","o","g","|","r","u","n">>>>,
     <<<<"c","(">>, <<"c","(">>>>,
     <<<<"r","a","n"," ","c","(">>, <<"r","u","n"," ","c","(">>>>}

\* the messages of the sessions read: "Cats ran" alone, "Cats" and "Cats ran"
\* in one session, and the two in a session each
SnippetSessions ==
    {<<[session_id |-> SessionId("1"), msgs |-> OneMessage(RowCatsRan)]>>,
     <<[session_id |-> SessionId("1"),
        msgs |-> OneMessage(RowCats)
                   \o <<[timestamp |-> <<"2">>, type |-> <<"a","s","s","t">>,
                         text |-> RowCatsRan.text, text_normalized |-> RowCatsRan.norm,
                         project_path |-> ProjectPath]>>]>>,
     <<[session_id |-> SessionId("1"), msgs |-> OneMessage(RowCats)],
       [session_id |-> SessionId("2"), msgs |-> OneMessage(RowCatsRan)]>>}

InitSnippet ==
    \E q \in SnippetQueries, read \in SnippetSessions :
        /\ stemmer_installed = TRUE
        /\ IdleIndex
        /\ IdleHint
        /\ IdleDiscovery
        /\ sessions_limit = 1
        /\ messages_limit \in 0..MaxMessagesLimit
        /\ context \in 0..MaxContext
        /\ query = q[1]
        /\ mode \in {"simple", "strict"}
        /\ query_normalized = q[2]
        /\ current_session_id = <<>>
        /\ keywords = parse_keywords(query, mode)
        /\ keywords_normalized = SplitWs(Lower(query_normalized))
        /\ line = <<>>
        /\ nread = Len(Flatten([i \in DOMAIN read |-> read[i].msgs]))
        /\ sessions = read
        /\ session_stats = <<>>
        /\ stdout = <<>>
        /\ stderr = <<>>
        /\ pc_fmt = "stats"

SpecSnippet == InitSnippet /\ [][NextCutoff]_vars

\* Rows that repeat a (timestamp, type, text) triple: the first row of
\* session s1, the same triple with another normalized text and another
\* project path, then rows that differ from the first in the type, the
\* timestamp, the text, and the session
MaxDedupRows == 3

DedupLines ==
    {MakeLine(<<SessionId("1"), <<"1">>, User, Cats, <<"c","a","t">>, ProjectPath>>),
     MakeLine(<<SessionId("1"), <<"1">>, User, Cats, <<"c","a","t","s">>, <<"/","q">>>>),
     MakeLine(<<SessionId("1"), <<"1">>, <<"a","s","s","t">>, Cats, <<"c","a","t">>, ProjectPath>>),
     MakeLine(<<SessionId("1"), <<"2">>, User, Cats, <<"c","a","t">>, ProjectPath>>),
     MakeLine(<<SessionId("1"), <<"1">>, User, ran, <<"r","u","n">>, ProjectPath>>),
     MakeLine(<<SessionId("2"), <<"1">>, User, Cats, <<"c","a","t">>, <<"/","q">>>>)}

InitDedup == StartFormatter(2, QueryCatsRan, "simple", <<>>)

NextDedup ==
    \/ nread < MaxDedupRows /\ \E l \in DedupLines : read_row(l)
    \/ AfterInput

SpecDedup == InitDedup /\ [][NextDedup]_vars

\* Queries with tokens that are no words: "404 cats", "men's cats",
\* "c_ts cats", "c++ cats", beside "cats ran", "cats|cat ran" and
\* "Cats I É 好好"; the rows are "Cats" and "ran ran" of session s1
MaxQueryRows == 2

AlignmentQueries ==
    {<<"4","0","4"," ","c","a","t","s">>,
     <<"m","e","n","'","s"," ","c","a","t","s">>,
     <<"c","_","t","s"," ","c","a","t","s">>,
     <<"c","+","+"," ","c","a","t","s">>,
     QueryCatsRan, QueryStrict, QueryMixed}

AlignmentLines ==
    {IndexLine(SessionId("1"), <<"1">>, [text |-> <<"4","0","4"," ">> \o Cats, norm |-> <<"4","0","4"," ","c","a","t">>]),
     IndexLine(SessionId("1"), <<"2">>, RowRanRan),
     IndexLine(SessionId("2"), <<"1">>, RowCats)}

InitAlignment ==
    \E q \in AlignmentQueries, m \in {"simple", "strict"} : StartFormatter(1, q, m, <<>>)

NextAlignment ==
    \/ nread < MaxQueryRows /\ \E l \in AlignmentLines : read_row(l)
    \/ AfterInput

SpecAlignment == InitAlignment /\ [][NextAlignment]_vars

\* hint_keywords.STOPWORDS_EN
STOPWORDS_EN ==
    {
     <<"t","h","e">>, <<"a">>, <<"a","n">>, <<"i","s">>, <<"a","r","e">>, <<"w","a","s">>,
     <<"w","e","r","e">>, <<"b","e">>, <<"b","e","e","n">>, <<"b","e","i","n","g">>, <<"t","o">>, <<"f","o","r">>,
     <<"o","f">>, <<"i","n">>, <<"o","n">>, <<"a","t">>, <<"b","y">>, <<"w","i","t","h">>,
     <<"f","r","o","m">>, <<"a","s">>, <<"a","n","d">>, <<"o","r">>, <<"b","u","t">>, <<"i","f">>,
     <<"t","h","e","n">>, <<"e","l","s","e">>, <<"w","h","e","n">>, <<"w","h","e","r","e">>, <<"w","h","y">>, <<"h","o","w">>,
     <<"w","h","a","t">>, <<"w","h","i","c","h">>, <<"w","h","o">>, <<"w","h","o","m">>, <<"w","h","o","s","e">>, <<"i">>,
     <<"m","e">>, <<"m","y">>, <<"m","i","n","e">>, <<"w","e">>, <<"u","s">>, <<"o","u","r">>,
     <<"o","u","r","s">>, <<"y","o","u">>, <<"y","o","u","r">>, <<"y","o","u","r","s">>, <<"h","e">>, <<"h","i","m">>,
     <<"h","i","s">>, <<"s","h","e">>, <<"h","e","r">>, <<"h","e","r","s">>, <<"i","t">>, <<"i","t","s">>,
     <<"t","h","e","y">>, <<"t","h","e","m">>, <<"t","h","e","i","r">>, <<"t","h","e","i","r","s">>, <<"t","h","i","s">>, <<"t","h","a","t">>,
     <<"t","h","e","s","e">>, <<"t","h","o","s","e">>, <<"d","o">>, <<"d","o","e","s">>, <<"d","i","d">>, <<"d","o","n","e">>,
     <<"d","o","i","n","g">>, <<"h","a","v","e">>, <<"h","a","s">>, <<"h","a","d">>, <<"h","a","v","i","n","g">>, <<"g","e","t">>,
     <<"g","o","t">>, <<"g","e","t","t","i","n","g">>, <<"g","e","t","s">>, <<"m","a","k","e">>, <<"m","a","d","e">>, <<"m","a","k","i","n","g">>,
     <<"m","a","k","e","s">>, <<"g","o">>, <<"w","e","n","t">>, <<"g","o","i","n","g">>, <<"g","o","e","s">>, <<"g","o","n","e">>,
     <<"t","a","k","e">>, <<"t","o","o","k">>, <<"t","a","k","i","n","g">>, <<"t","a","k","e","s">>, <<"t","a","k","e","n">>, <<"c","o","m","e">>,
     <<"c","a","m","e">>, <<"c","o","m","i","n","g">>, <<"c","o","m","e","s">>, <<"s","e","e">>, <<"s","a","w">>, <<"s","e","e","i","n","g">>,
     <<"s","e","e","s">>, <<"s","e","e","n">>, <<"k","n","o","w">>, <<"k","n","e","w">>, <<"k","n","o","w","i","n","g">>, <<"k","n","o","w","s">>,
     <<"k","n","o","w","n">>, <<"t","h","i","n","k">>, <<"t","h","o","u","g","h","t">>, <<"t","h","i","n","k","i","n","g">>, <<"t","h","i","n","k","s">>, <<"w","a","n","t">>,
     <<"w","a","n","t","e","d">>, <<"w","a","n","t","i","n","g">>, <<"w","a","n","t","s">>, <<"n","e","e","d">>, <<"n","e","e","d","e","d">>, <<"n","e","e","d","i","n","g">>,
     <<"n","e","e","d","s">>, <<"t","r","y">>, <<"t","r","i","e","d">>, <<"t","r","y","i","n","g">>, <<"t","r","i","e","s">>, <<"u","s","e">>,
     <<"u","s","e","d">>, <<"u","s","i","n","g">>, <<"u","s","e","s">>, <<"f","i","n","d">>, <<"f","o","u","n","d">>, <<"f","i","n","d","i","n","g">>,
     <<"f","i","n","d","s">>, <<"g","i","v","e">>, <<"g","a","v","e">>, <<"g","i","v","i","n","g">>, <<"g","i","v","e","s">>, <<"g","i","v","e","n">>,
     <<"t","e","l","l">>, <<"t","o","l","d">>, <<"t","e","l","l","i","n","g">>, <<"t","e","l","l","s">>, <<"s","a","y">>, <<"s","a","i","d">>,
     <<"s","a","y","i","n","g">>, <<"s","a","y","s">>, <<"l","e","t">>, <<"l","e","t","s">>, <<"l","e","t","t","i","n","g">>, <<"p","u","t">>,
     <<"p","u","t","s">>, <<"p","u","t","t","i","n","g">>, <<"k","e","e","p">>, <<"k","e","p","t">>, <<"k","e","e","p","i","n","g">>, <<"k","e","e","p","s">>,
     <<"b","e","g","i","n">>, <<"b","e","g","a","n">>, <<"b","e","g","i","n","n","i","n","g">>, <<"b","e","g","i","n","s">>, <<"b","e","g","u","n">>, <<"s","e","e","m">>,
     <<"s","e","e","m","e","d">>, <<"s","e","e","m","i","n","g">>, <<"s","e","e","m","s">>, <<"l","e","a","v","e">>, <<"l","e","f","t">>, <<"l","e","a","v","i","n","g">>,
     <<"l","e","a","v","e","s">>, <<"c","a","l","l">>, <<"c","a","l","l","e","d">>, <<"c","a","l","l","i","n","g">>, <<"c","a","l","l","s">>, <<"a","s","k">>,
     <<"a","s","k","e","d">>, <<"a","s","k","i","n","g">>, <<"a","s","k","s">>, <<"w","o","r","k">>, <<"w","o","r","k","e","d">>, <<"w","o","r","k","i","n","g">>,
     <<"w","o","r","k","s">>, <<"l","o","o","k">>, <<"l","o","o","k","e","d">>, <<"l","o","o","k","i","n","g">>, <<"l","o","o","k","s">>, <<"f","i","x">>,
     <<"f","i","x","e","d">>, <<"f","i","x","i","n","g">>, <<"f","i","x","e","s">>, <<"a","d","d">>, <<"a","d","d","e","d">>, <<"a","d","d","i","n","g">>,
     <<"a","d","d","s">>, <<"s","h","o","w">>, <<"s","h","o","w","e","d">>, <<"s","h","o","w","i","n","g">>, <<"s","h","o","w","s">>, <<"s","h","o","w","n">>,
     <<"c","h","e","c","k">>, <<"c","h","e","c","k","e","d">>, <<"c","h","e","c","k","i","n","g">>, <<"c","h","e","c","k","s">>, <<"d","e","b","u","g">>, <<"d","e","b","u","g","g","e","d">>,
     <<"d","e","b","u","g","g","i","n","g">>, <<"d","e","b","u","g","s">>, <<"r","u","n">>, <<"r","a","n">>, <<"r","u","n","n","i","n","g">>, <<"r","u","n","s">>,
     <<"s","t","a","r","t">>, <<"s","t","a","r","t","e","d">>, <<"s","t","a","r","t","i","n","g">>, <<"s","t","a","r","t","s">>, <<"s","t","o","p">>, <<"s","t","o","p","p","e","d">>,
     <<"s","t","o","p","p","i","n","g">>, <<"s","t","o","p","s">>, <<"o","p","e","n">>, <<"o","p","e","n","e","d">>, <<"o","p","e","n","i","n","g">>, <<"o","p","e","n","s">>,
     <<"c","l","o","s","e">>, <<"c","l","o","s","e","d">>, <<"c","l","o","s","i","n","g">>, <<"c","l","o","s","e","s">>, <<"r","e","a","d">>, <<"r","e","a","d","i","n","g">>,
     <<"r","e","a","d","s">>, <<"w","r","i","t","e">>, <<"w","r","o","t","e">>, <<"w","r","i","t","i","n","g">>, <<"w","r","i","t","e","s">>, <<"w","r","i","t","t","e","n">>,
     <<"c","r","e","a","t","e">>, <<"c","r","e","a","t","e","d">>, <<"c","r","e","a","t","i","n","g">>, <<"c","r","e","a","t","e","s">>, <<"d","e","l","e","t","e">>, <<"d","e","l","e","t","e","d">>,
     <<"d","e","l","e","t","i","n","g">>, <<"d","e","l","e","t","e","s">>, <<"u","p","d","a","t","e">>, <<"u","p","d","a","t","e","d">>, <<"u","p","d","a","t","i","n","g">>, <<"u","p","d","a","t","e","s">>,
     <<"c","h","a","n","g","e">>, <<"c","h","a","n","g","e","d">>, <<"c","h","a","n","g","i","n","g">>, <<"c","h","a","n","g","e","s">>, <<"s","e","t">>, <<"s","e","t","t","i","n","g">>,
     <<"s","e","t","s">>, <<"m","o","v","e">>, <<"m","o","v","e","d">>, <<"m","o","v","i","n","g">>, <<"m","o","v","e","s">>, <<"c","o","p","y">>,
     <<"c","o","p","i","e","d">>, <<"c","o","p","y","i","n","g">>, <<"c","o","p","i","e","s">>, <<"s","e","n","d">>, <<"s","e","n","t">>, <<"s","e","n","d","i","n","g">>,
     <<"s","e","n","d","s">>, <<"r","e","m","e","m","b","e","r">>, <<"r","e","m","e","m","b","e","r","e","d">>, <<"r","e","m","e","m","b","e","r","i","n","g">>, <<"r","e","m","e","m","b","e","r","s">>, <<"c","o","n","t","i","n","u","e">>,
     <<"c","o","n","t","i","n","u","e","d">>, <<"c","o","n","t","i","n","u","i","n","g">>, <<"c","o","n","t","i","n","u","e","s">>, <<"c","a","n">>, <<"c","o","u","l","d">>, <<"w","i","l","l">>,
     <<"w","o","u","l","d">>, <<"s","h","a","l","l">>, <<"s","h","o","u","l","d">>, <<"m","a","y">>, <<"m","i","g","h","t">>, <<"m","u","s","t">>,
     <<"j","u","s","t">>, <<"a","l","s","o">>, <<"o","n","l","y">>, <<"s","t","i","l","l">>, <<"e","v","e","n">>, <<"a","g","a","i","n">>,
     <<"n","o","w">>, <<"h","e","r","e">>, <<"t","h","e","r","e">>, <<"v","e","r","y">>, <<"r","e","a","l","l","y">>, <<"w","e","l","l">>,
     <<"b","a","c","k">>, <<"m","u","c","h">>, <<"m","o","r","e">>, <<"m","o","s","t">>, <<"l","e","s","s">>, <<"l","e","a","s","t">>,
     <<"o","f","f">>, <<"o","u","t">>, <<"u","p">>, <<"d","o","w","n">>, <<"a","w","a","y">>, <<"p","l","e","a","s","e">>,
     <<"t","h","a","n","k","s">>, <<"t","h","a","n","k">>, <<"h","e","l","p">>, <<"o","k","a","y">>, <<"o","k">>, <<"y","e","s">>,
     <<"n","o">>, <<"m","a","y","b","e">>, <<"p","e","r","h","a","p","s">>, <<"a","c","t","u","a","l","l","y">>, <<"b","a","s","i","c","a","l","l","y">>, <<"p","r","o","b","a","b","l","y">>,
     <<"a","b","o","u","t">>, <<"a","f","t","e","r">>, <<"b","e","f","o","r","e">>, <<"b","e","t","w","e","e","n">>, <<"t","h","r","o","u","g","h">>, <<"d","u","r","i","n","g">>,
     <<"i","n","t","o">>, <<"o","v","e","r">>, <<"u","n","d","e","r">>, <<"a","b","o","v","e">>, <<"b","e","l","o","w">>, <<"s","o","m","e">>,
     <<"a","n","y">>, <<"a","l","l">>, <<"e","a","c","h">>, <<"e","v","e","r","y">>, <<"b","o","t","h">>, <<"f","e","w">>,
     <<"m","a","n","y">>, <<"o","t","h","e","r">>, <<"a","n","o","t","h","e","r">>, <<"s","u","c","h">>, <<"s","a","m","e">>, <<"d","i","f","f","e","r","e","n","t">>,
     <<"f","i","r","s","t">>, <<"l","a","s","t">>, <<"n","e","x","t">>, <<"n","e","w">>, <<"o","l","d">>, <<"g","o","o","d">>,
     <<"b","a","d">>, <<"r","i","g","h","t">>, <<"w","r","o","n","g">>, <<"w","a","y">>, <<"t","h","i","n","g">>, <<"t","h","i","n","g","s">>,
     <<"s","o","m","e","t","h","i","n","g">>, <<"a","n","y","t","h","i","n","g">>, <<"n","o","t","h","i","n","g">>, <<"e","v","e","r","y","t","h","i","n","g">>, <<"a","m">>, <<"r","e">>,
     <<"o","h">>, <<"s","o">>, <<"h","i">>, <<"a","h">>
    }

\* hint_keywords.STOPWORDS_ZH
STOPWORDS_ZH ==
    {
     <<"U+7684">>, <<"U+5730">>, <<"U+5F97">>, <<"U+4E86">>, <<"U+7740">>, <<"U+8FC7">>,
     <<"U+5417">>, <<"U+5462">>, <<"U+554A">>, <<"U+5427">>, <<"U+5440">>, <<"U+54E6">>,
     <<"U+561B">>, <<"U+5566">>, <<"U+6211">>, <<"U+4F60">>, <<"U+60A8">>, <<"U+4ED6">>,
     <<"U+5979">>, <<"U+5B83">>, <<"U+6211","U+4EEC">>, <<"U+4F60","U+4EEC">>, <<"U+4ED6","U+4EEC">>, <<"U+5979","U+4EEC">>,
     <<"U+5B83","U+4EEC">>, <<"U+8FD9">>, <<"U+90A3">>, <<"U+8FD9","U+4E2A">>, <<"U+90A3","U+4E2A">>, <<"U+8FD9","U+4E9B">>,
     <<"U+90A3","U+4E9B">>, <<"U+8FD9","U+91CC">>, <<"U+90A3","U+91CC">>, <<"U+548C">>, <<"U+4E0E">>, <<"U+6216">>,
     <<"U+4F46">>, <<"U+4F46","U+662F">>, <<"U+56E0","U+4E3A">>, <<"U+6240","U+4EE5">>, <<"U+5982","U+679C">>, <<"U+867D","U+7136">>,
     <<"U+5728">>, <<"U+4ECE">>, <<"U+5230">>, <<"U+5BF9">>, <<"U+5411">>, <<"U+628A">>,
     <<"U+88AB">>, <<"U+7ED9">>, <<"U+8DDF">>, <<"U+6BD4">>, <<"U+91CC">>, <<"U+91CC","U+9762">>,
     <<"U+5916">>, <<"U+5916","U+9762">>, <<"U+4E0A">>, <<"U+4E0A","U+9762">>, <<"U+4E0B">>, <<"U+4E0B","U+9762">>,
     <<"U+524D">>, <<"U+524D","U+9762">>, <<"U+540E">>, <<"U+540E","U+9762">>, <<"U+662F">>, <<"U+6709">>,
     <<"U+6CA1","U+6709">>, <<"U+6CA1">>, <<"U+4E0D">>, <<"U+4E0D","U+662F">>, <<"U+4F1A">>, <<"U+80FD">>,
     <<"U+53EF","U+4EE5">>, <<"U+8981">>, <<"U+60F3">>, <<"U+5E94","U+8BE5">>, <<"U+505A">>, <<"U+53BB">>,
     <<"U+6765">>, <<"U+8BF4">>, <<"U+770B">>, <<"U+77E5","U+9053">>, <<"U+89C9","U+5F97">>, <<"U+8BA4","U+4E3A">>,
     <<"U+5E0C","U+671B">>, <<"U+770B","U+770B">>, <<"U+60F3","U+8981">>, <<"U+6709","U+4E2A">>, <<"U+662F","U+4E0D","U+662F">>, <<"U+80FD","U+4E0D","U+80FD">>,
     <<"U+53EF","U+4E0D","U+53EF","U+4EE5">>, <<"U+4E0D","U+80FD">>, <<"U+5E2E">>, <<"U+5E2E","U+6211">>, <<"U+5E2E","U+5FD9">>, <<"U+8BF7">>,
     <<"U+8BF7","U+95EE">>, <<"U+8BD5","U+8BD5">>, <<"U+60F3","U+60F3">>, <<"U+770B","U+4E0B">>, <<"U+770B","U+4E00","U+4E0B">>, <<"U+5F04">>,
     <<"U+641E">>, <<"U+6574">>, <<"U+65E0","U+6CD5">>, <<"U+4E0D","U+5BF9">>, <<"U+4E0D","U+884C">>, <<"U+4E0D","U+597D">>,
     <<"U+597D","U+50CF">>, <<"U+53EF","U+80FD">>, <<"U+6267","U+884C">>, <<"U+6DFB","U+52A0">>, <<"U+8BA8","U+8BBA">>, <<"U+4F7F","U+7528">>,
     <<"U+4E4B","U+524D">>, <<"U+4E4B","U+540E">>, <<"U+4EE5","U+524D">>, <<"U+4EE5","U+540E">>, <<"U+4E0A","U+6B21">>, <<"U+4E0B","U+6B21">>,
     <<"U+521A","U+624D">>, <<"U+73B0","U+5728">>, <<"U+9A6C","U+4E0A">>, <<"U+4ECA","U+5929">>, <<"U+660E","U+5929">>, <<"U+6628","U+5929">>,
     <<"U+65F6","U+5019">>, <<"U+4EC0","U+4E48">>, <<"U+600E","U+4E48">>, <<"U+600E","U+6837">>, <<"U+4E3A","U+4EC0","U+4E48">>, <<"U+54EA">>,
     <<"U+54EA","U+4E2A">>, <<"U+54EA","U+4E9B">>, <<"U+54EA","U+91CC">>, <<"U+8C01">>, <<"U+591A","U+5C11">>, <<"U+5F88">>,
     <<"U+592A">>, <<"U+771F">>, <<"U+6700">>, <<"U+66F4">>, <<"U+975E","U+5E38">>, <<"U+7279","U+522B">>,
     <<"U+6BD4","U+8F83">>, <<"U+7A0D","U+5FAE">>, <<"U+5C31">>, <<"U+624D">>, <<"U+90FD">>, <<"U+4E5F">>,
     <<"U+8FD8">>, <<"U+53C8">>, <<"U+518D">>, <<"U+5DF2","U+7ECF">>, <<"U+6B63","U+5728">>, <<"U+4E00","U+76F4">>,
     <<"U+8FD8","U+662F">>, <<"U+5148">>, <<"U+4E0D","U+7BA1">>, <<"U+4E0D","U+8981">>, <<"U+4E2A">>, <<"U+4E9B">>,
     <<"U+70B9">>, <<"U+6B21">>, <<"U+79CD">>, <<"U+6837">>, <<"U+4E00">>, <<"U+4E00","U+4E2A">>,
     <<"U+4E00","U+4E0B">>, <<"U+4E00","U+4E9B">>, <<"U+4E00","U+70B9">>, <<"U+597D">>, <<"U+884C">>, <<"U+597D","U+7684">>,
     <<"U+7136","U+540E">>, <<"U+63A5","U+4E0B","U+6765">>
    }

(***************************************************************************)
(* The Keyword Extractor (hint_keywords.py)                                *)
(***************************************************************************)
MIN_ENGLISH_WORD_LENGTH == 3
DefaultMaxKeywords == 6

JIEBA_AVAILABLE_hint == jieba_installed

\* [\u4e00-\u9fff\u3040-\u309f\u30a0-\u30ff]: a CJK ideograph or a kana
IsCjkOrKana(c) == c \in CjkChars \/ c \in KanaChars

\* hint_keywords.has_cjk
has_cjk(text) == \E i \in DOMAIN text : IsCjkOrKana(text[i])

\* not s or not s.strip()
IsBlank(s) == \A i \in DOMAIN s : IsSpace(s[i])

RECURSIVE SplitCjkRuns(_)
\* re.split(r'([\u4e00-\u9fff\u3040-\u309f\u30a0-\u30ff]+)', s): the pieces
\* between the runs alternate with the runs, which the group captures
SplitCjkRuns(s) ==
    IF ~has_cjk(s) THEN <<s>>
    ELSE LET a == Min({i \in DOMAIN s : IsCjkOrKana(s[i])})
             stops == {i \in a..Len(s) : ~IsCjkOrKana(s[i])}
             b == IF stops = {} THEN Len(s) ELSE Min(stops) - 1
         IN  <<SubSeq(s, 1, a - 1), SubSeq(s, a, b)>> \o SplitCjkRuns(SubSeq(s, b + 1, Len(s)))

RECURSIVE FindLongWordsFrom(_, _)
\* re.findall(rf'\b[a-zA-Z]{{{MIN_ENGLISH_WORD_LENGTH},}}\b', s) from position i
FindLongWordsFrom(s, i) ==
    IF i > Len(s) THEN <<>>
    ELSE LET ends == {j \in (i + MIN_ENGLISH_WORD_LENGTH - 1)..Len(s) :
                        /\ \A k \in i..j : IsAsciiLetter(s[k])
                        /\ BoundaryAt(s, j + 1)}
         IN  IF BoundaryAt(s, i) /\ ends # {}
               THEN <<SubSeq(s, i, Max(ends))>> \o FindLongWordsFrom(s, Max(ends) + 1)
               ELSE FindLongWordsFrom(s, i + 1)

RECURSIVE FindNumbersFrom(_, _)
\* re.findall(r'\b\d{3,}\b', s) from position i
FindNumbersFrom(s, i) ==
    IF i > Len(s) THEN <<>>
    ELSE LET ends == {j \in (i + 2)..Len(s) :
                        /\ \A k \in i..j : s[k] \in Digits
                        /\ BoundaryAt(s, j + 1)}
         IN  IF BoundaryAt(s, i) /\ ends # {}
               THEN <<SubSeq(s, i, Max(ends))>> \o FindNumbersFrom(s, Max(ends) + 1)
               ELSE FindNumbersFrom(s, i + 1)

\* a variant of extract_english_keywords that keeps the stopwords
extract_english_keywords_unfiltered(text) ==
    FindLongWordsFrom(Lower(text), 1) \o FindNumbersFrom(text, 1)

\* hint_keywords.extract_english_keywords
extract_english_keywords(text) ==
    LET words == FindLongWordsFrom(Lower(text), 1)
        numbers == FindNumbersFrom(text, 1)
    IN  SelectSeq(words, LAMBDA w : w \notin STOPWORDS_EN) \o numbers

RECURSIVE Segmentations(_)
\* the lists jieba.lcut(s) can return: the ways to cut s into words
Segmentations(s) ==
    IF s = <<>> THEN {<<>>}
    ELSE UNION {{<<SubSeq(s, 1, k)>> \o rest :
                    rest \in Segmentations(SubSeq(s, k + 1, Len(s)))} : k \in 1..Len(s)}

\* what jieba.lcut(s) can return when jieba is there; not called otherwise
lcut(s) == IF JIEBA_AVAILABLE_hint THEN Segmentations(s) ELSE {<<>>}

\* hint_keywords.extract_chinese_keywords, words the list jieba.lcut returns
extract_chinese_keywords(text, words) ==
    IF JIEBA_AVAILABLE_hint
      THEN SelectSeq(words, LAMBDA w : Len(w) >= 2 /\ w \notin STOPWORDS_ZH)
      ELSE LET clean == SelectSeq(text, LAMBDA c : c \in CjkChars)
               bigrams == [i \in 1..(Len(clean) - 1) |-> SubSeq(clean, i, i + 1)]
           IN  SelectSeq(bigrams, LAMBDA w : w \notin STOPWORDS_ZH)

\* a variant of the deduplication that keeps every keyword
DedupLoop_keep_all(kws, seen, unique) == kws

RECURSIVE DedupLoop(_, _, _)
\* the loop `for kw in keywords` of extract_keywords: unique_keywords
DedupLoop(kws, seen, unique) ==
    IF kws = <<>> THEN unique
    ELSE IF Head(kws) \in seen THEN DedupLoop(Tail(kws), seen, unique)
    ELSE DedupLoop(Tail(kws), seen \cup {Head(kws)}, Append(unique, Head(kws)))

\* extract_keywords up to the split into segments
extract_start ==
    /\ pc_hint = "start"
    /\ IF IsBlank(hint_text)
         THEN /\ unique_keywords' = <<>>
              /\ pc_hint' = "done"
              /\ UNCHANGED segments
         ELSE /\ segments' = SplitCjkRuns(hint_text)
              /\ pc_hint' = "segments"
              /\ UNCHANGED unique_keywords
    /\ UNCHANGED <<jieba_installed, hint_text, max_keywords, hint_keywords>>
    /\ UNCHANGED <<stemmer_installed, index_vars, fmt_vars, disc_vars>>

\* one iteration of the loop `for segment in segments`
extract_segment ==
    /\ pc_hint = "segments"
    /\ segments # <<>>
    /\ LET segment == Head(segments)
       IN  IF IsBlank(segment)
             THEN UNCHANGED hint_keywords
             ELSE IF has_cjk(segment)
               THEN \E words \in lcut(segment) :
                      hint_keywords' = hint_keywords \o extract_chinese_keywords(segment, words)
               ELSE hint_keywords' = hint_keywords \o extract_english_keywords(segment)
    /\ segments' = Tail(segments)
    /\ UNCHANGED <<jieba_installed, hint_text, max_keywords, unique_keywords, pc_hint>>
    /\ UNCHANGED <<stemmer_installed, index_vars, fmt_vars, disc_vars>>

\* the deduplication and `return unique_keywords[:max_keywords]`
extract_return ==
    /\ pc_hint = "segments"
    /\ segments = <<>>
    /\ unique_keywords' = Prefix(DedupLoop(hint_keywords, {}, <<>>), max_keywords)
    /\ pc_hint' = "done"
    /\ UNCHANGED <<jieba_installed, hint_text, max_keywords, segments, hint_keywords>>
    /\ UNCHANGED <<stemmer_installed, index_vars, fmt_vars, disc_vars>>

(***************************************************************************)
(* Runs of the Keyword Extractor                                           *)
(***************************************************************************)
\* the most pieces of a text given to extract_keywords
MaxHintChunks == 3

\* the pieces: "the", "Cat", "cat", "404", a space and three CJK ideographs
HintChunks ==
    {<<"t","h","e">>, <<"C","a","t">>, <<"c","a","t">>, <<"4","0","4">>, <<Space>>,
     <<"U+4F60">>, <<"U+597D">>, <<"U+7684">>}

HintTexts == {Flatten(cs) : cs \in UNION {[1..n -> HintChunks] : n \in 0..MaxHintChunks}}

\* the caps: none, one, and the default of extract_keywords
HintCaps == {0, 1, DefaultMaxKeywords}

InitHint ==
    /\ stemmer_installed = TRUE
    /\ IdleIndex
    /\ IdleFormatter
    /\ IdleDiscovery
    /\ jieba_installed \in BOOLEAN
    /\ hint_text \in HintTexts
    /\ max_keywords \in HintCaps
    /\ segments = <<>>
    /\ hint_keywords = <<>>
    /\ unique_keywords = <<>>
    /\ pc_hint = "start"

NextHint ==
    \/ extract_start
    \/ extract_segment
    \/ extract_return

SpecHint == InitHint /\ [][NextHint]_vars

\* build_custom_keywords.SEED_KEYWORDS
SEED_KEYWORDS ==
    {
     <<"f","e","i","s","h","u">>, <<"l","a","r","k">>, <<"b","i","t","a","b","l","e">>, <<"o","a","u","t","h">>, <<"c","h","r","o","m","e">>, <<"b","r","o","w","s","e","r">>,
     <<"c","d","p">>, <<"h","e","a","d","l","e","s","s">>, <<"p","l","a","y","w","r","i","g","h","t">>, <<"a","u","t","o","m","a","t","i","o","n">>, <<"c","a","l","e","n","d","a","r">>, <<"g","m","a","i","l">>,
     <<"a","p","i">>, <<"U+98DE","U+4E66">>, <<"U+591A","U+7EF4","U+8868","U+683C">>, <<"U+5BA1","U+6279">>, <<"U+6D4F","U+89C8","U+5668">>, <<"U+81EA","U+52A8","U+5316">>,
     <<"U+65E5","U+5386">>, <<"U+673A","U+5668","U+4EBA">>
    }

\* build_custom_keywords.GENERAL_STOPWORDS
GENERAL_STOPWORDS ==
    {
     <<"t","h","e">>, <<"a">>, <<"a","n">>, <<"i","s">>, <<"a","r","e">>, <<"w","a","s">>,
     <<"w","e","r","e">>, <<"b","e">>, <<"b","e","e","n">>, <<"b","e","i","n","g">>, <<"t","o">>, <<"f","o","r">>,
     <<"o","f">>, <<"i","n">>, <<"o","n">>, <<"a","t">>, <<"b","y">>, <<"w","i","t","h">>,
     <<"f","r","o","m">>, <<"a","s">>, <<"a","n","d">>, <<"o","r">>, <<"b","u","t">>, <<"i","f">>,
     <<"t","h","e","n">>, <<"e","l","s","e">>, <<"t","h","i","s">>, <<"t","h","a","t">>, <<"i","t">>, <<"y","o","u">>,
     <<"w","e">>, <<"t","h","e","y">>, <<"h","a","v","e">>, <<"h","a","s">>, <<"h","a","d">>, <<"d","o">>,
     <<"d","o","e","s">>, <<"d","i","d">>, <<"w","i","l","l">>, <<"w","o","u","l","d">>, <<"c","a","n">>, <<"c","o","u","l","d">>,
     <<"s","h","o","u","l","d">>, <<"m","a","y">>, <<"m","i","g","h","t">>, <<"m","u","s","t">>, <<"n","o","t">>, <<"n","o">>,
     <<"y","e","s">>, <<"j","u","s","t">>, <<"a","l","s","o">>, <<"o","n","l","y">>, <<"m","o","r","e">>, <<"s","o","m","e">>,
     <<"a","n","y">>, <<"a","l","l">>, <<"e","a","c","h">>, <<"e","v","e","r","y">>, <<"b","o","t","h">>, <<"f","e","w">>,
     <<"m","a","n","y">>, <<"m","u","c","h">>, <<"m","o","s","t">>, <<"o","t","h","e","r">>, <<"s","u","c","h">>, <<"s","a","m","e">>,
     <<"n","e","w">>, <<"f","i","r","s","t">>, <<"l","a","s","t">>, <<"n","e","x","t">>, <<"r","i","g","h","t">>, <<"n","o","w">>,
     <<"h","e","r","e">>, <<"t","h","e","r","e">>, <<"w","h","e","n">>, <<"w","h","e","r","e">>, <<"w","h","y">>, <<"h","o","w">>,
     <<"w","h","a","t">>, <<"w","h","i","c","h">>, <<"w","h","o">>, <<"w","h","o","m">>, <<"w","h","o","s","e">>, <<"o","n","e">>,
     <<"t","w","o">>, <<"t","h","r","e","e">>, <<"y","o","u","r">>, <<"o","u","r">>, <<"t","h","e","i","r">>, <<"i","t","s">>,
     <<"i","n","t","o">>, <<"a","b","o","u","t">>, <<"a","f","t","e","r">>, <<"b","e","f","o","r","e">>, <<"u","s","e">>, <<"u","s","e","d">>,
     <<"u","s","i","n","g">>, <<"u","s","e","s">>, <<"f","i","l","e">>, <<"f","i","l","e","s">>, <<"c","o","d","e">>, <<"l","i","k","e">>,
     <<"n","e","e","d">>, <<"g","e","t">>, <<"g","o","t">>, <<"m","a","k","e">>, <<"m","a","d","e">>, <<"s","e","t">>,
     <<"s","e","e">>, <<"l","o","o","k">>, <<"f","i","n","d">>, <<"r","u","n">>, <<"r","u","n","n","i","n","g">>, <<"t","e","s","t">>,
     <<"e","r","r","o","r">>, <<"m","e","s","s","a","g","e">>, <<"r","e","s","u","l","t">>, <<"v","a","l","u","e">>, <<"d","a","t","a">>, <<"n","a","m","e">>,
     <<"t","y","p","e">>, <<"t","e","x","t">>, <<"l","i","n","e">>, <<"t","i","m","e">>, <<"u","s","e","r">>, <<"p","a","t","h">>,
     <<"s","e","a","r","c","h">>, <<"b","a","s","h">>, <<"m","e","m","o","r","y">>, <<"s","e","s","s","i","o","n">>, <<"s","e","s","s","i","o","n","s">>, <<"t","o","o","l">>,
     <<"t","o","o","l","s">>, <<"w","o","r","k">>, <<"w","o","r","k","s">>, <<"w","o","r","k","i","n","g">>, <<"l","e","t">>, <<"k","e","y">>,
     <<"s","u","m","m","a","r","y">>, <<"f","u","l","l">>, <<"m","e","s","s","a","g","e","s">>, <<"c","u","r","r","e","n","t">>, <<"r","e","s","u","l","t","s">>, <<"o","u","t","p","u","t">>,
     <<"w","i","t","h","o","u","t">>, <<"s","t","a","r","t">>, <<"o","p","e","n">>, <<"f","o","r","m","a","t">>, <<"b","a","s","e","d">>, <<"v","i","a">>,
     <<"c","o","m","m","a","n","d">>, <<"s","e","t","u","p">>, <<"m","o","d","e">>, <<"a","d","d">>, <<"s","y","s","t","e","m">>, <<"a","c","c","e","s","s">>,
     <<"c","a","l","l">>, <<"c","a","l","l","s">>, <<"c","h","e","c","k">>, <<"s","h","o","w">>, <<"p","r","o","c","e","s","s">>, <<"c","o","m">>,
     <<"w","w","w">>, <<"h","t","t","p">>, <<"h","t","t","p","s">>, <<"n","m","e","m","o","r","y">>, <<"n","t","h","e">>, <<"n","i","f">>,
     <<"n","s","e","a","r","c","h">>, <<"f","u","n","c","t","i","o","n">>, <<"m","e","t","h","o","d">>, <<"c","l","a","s","s">>, <<"o","b","j","e","c","t">>, <<"s","t","r","i","n","g">>,
     <<"n","u","m","b","e","r">>, <<"l","i","s","t">>, <<"i","n","p","u","t">>, <<"r","e","s","p","o","n","s","e">>, <<"r","e","q","u","e","s","t">>, <<"q","u","e","r","y">>,
     <<"p","a","r","a","m","s">>, <<"a","r","g","s">>, <<"o","p","t","i","o","n","s">>, <<"c","o","n","f","i","g">>, <<"d","e","f","a","u","l","t">>, <<"t","r","u","e">>,
     <<"f","a","l","s","e">>, <<"n","u","l","l">>, <<"n","o","n","e">>, <<"r","e","t","u","r","n">>, <<"l","o","a","d">>, <<"s","a","v","e">>,
     <<"p","a","r","s","e">>, <<"b","u","i","l","d">>, <<"g","e","n","e","r","a","t","e">>, <<"e","x","t","r","a","c","t">>, <<"c","o","n","v","e","r","t">>, <<"h","a","n","d","l","e">>,
     <<"e","x","e","c","u","t","e">>, <<"i","m","p","l","e","m","e","n","t">>, <<"i","m","p","o","r","t">>, <<"e","x","p","o","r","t">>, <<"m","o","d","u","l","e">>, <<"v","e","r","s","i","o","n">>,
     <<"e","x","a","m","p","l","e">>, <<"t","e","s","t","i","n","g">>, <<"d","e","b","u","g">>, <<"l","o","g">>, <<"p","r","i","n","t">>, <<"d","i","s","p","l","a","y">>,
     <<"h","e","l","p">>, <<"p","l","e","a","s","e">>, <<"t","h","a","n","k","s">>, <<"w","a","n","t">>, <<"t","r","y","i","n","g">>, <<"g","o","i","n","g">>,
     <<"d","o","i","n","g">>, <<"t","h","i","n","k">>, <<"k","n","o","w">>, <<"q","u","e","s","t","i","o","n">>, <<"q","u","e","s","t","i","o","n","s">>, <<"a","n","s","w","e","r">>,
     <<"p","r","o","b","l","e","m">>, <<"i","s","s","u","e">>, <<"s","o","l","u","t","i","o","n">>, <<"i","d","e","a">>, <<"w","a","y">>, <<"t","h","i","n","g">>,
     <<"s","o","m","e","t","h","i","n","g">>, <<"a","n","y","t","h","i","n","g">>, <<"e","v","e","r","y","t","h","i","n","g">>, <<"s","i","m","p","l","e">>, <<"b","e","t","t","e","r">>, <<"g","o","o","d">>,
     <<"b","e","s","t">>, <<"g","r","e","a","t">>, <<"n","i","c","e">>, <<"f","i","n","e">>, <<"e","a","s","y">>, <<"h","a","r","d">>,
     <<"d","i","f","f","i","c","u","l","t">>, <<"f","a","s","t">>, <<"s","l","o","w">>, <<"q","u","i","c","k">>, <<"s","m","a","l","l">>, <<"l","a","r","g","e">>,
     <<"b","i","g">>, <<"o","l","d">>, <<"l","o","n","g">>, <<"s","h","o","r","t">>, <<"h","i","g","h">>, <<"l","o","w">>,
     <<"e","m","p","t","y">>, <<"a","v","a","i","l","a","b","l","e">>, <<"o","p","t","i","o","n","a","l">>, <<"r","e","q","u","i","r","e","d">>, <<"r","e","l","e","v","a","n","t">>, <<"u","s","e","f","u","l">>,
     <<"d","i","f","f","e","r","e","n","t">>, <<"s","i","m","i","l","a","r">>, <<"a","d","d","e","d">>, <<"u","p","d","a","t","e","d">>, <<"c","h","a","n","g","e","d">>, <<"c","r","e","a","t","e","d">>,
     <<"r","e","m","o","v","e","d">>, <<"d","e","l","e","t","e","d">>, <<"m","o","v","e","d">>, <<"d","o","n","e">>, <<"f","o","u","n","d">>, <<"w","r","i","t","t","e","n">>,
     <<"r","e","a","d">>, <<"c","a","l","l","e","d">>, <<"d","e","f","i","n","e","d">>, <<"w","o","r","d","s">>, <<"t","e","r","m","s">>, <<"n","a","m","e","s">>,
     <<"t","y","p","e","s">>, <<"i","t","e","m","s">>, <<"e","l","e","m","e","n","t","s">>, <<"p","a","r","t","s">>, <<"d","e","s","i","g","n">>, <<"s","t","r","u","c","t","u","r","e">>,
     <<"p","a","t","t","e","r","n">>, <<"p","a","t","t","e","r","n","s">>, <<"s","t","y","l","e">>, <<"s","t","y","l","e","s">>, <<"d","o","c","s">>, <<"d","o","c","u","m","e","n","t","a","t","i","o","n">>,
     <<"r","e","a","d","m","e">>, <<"g","u","i","d","e">>, <<"t","u","t","o","r","i","a","l">>, <<"r","e","f","e","r","e","n","c","e">>, <<"e","t","c">>, <<"t","h","r","o","u","g","h">>,
     <<"o","u","t">>, <<"t","o","p">>, <<"w","a","n","t","s">>, <<"n","a","t","i","v","e">>, <<"c","o","m","p","l","e","x">>, <<"n","t","h","i","s">>,
     <<"n","t","h","a","t">>, <<"n","a","t","u","r","a","l">>, <<"l","a","n","g","u","a","g","e">>, <<"m","a","t","c","h","e","s">>, <<"p","r","i","m","a","r","y">>, <<"m","u","l","t","i">>,
     <<"c","o","n","t","r","o","l">>, <<"r","e","c","o","m","m","e","n","d","a","t","i","o","n">>, <<"d","a","t","e">>, <<"f","i","l","t","e","r">>, <<"a","u","t","o">>, <<"p","a","s","s">>,
     <<"f","l","a","g">>, <<"d","e","v">>, <<"c","o","m","m","a","n","d","s">>, <<"c","l","a","u","d","e">>, <<"a","g","e","n","t">>, <<"a","g","e","n","t","s">>,
     <<"t","a","s","k">>, <<"t","a","s","k","s">>, <<"c","o","n","t","e","x","t">>, <<"p","r","o","m","p","t">>, <<"h","i","n","t">>, <<"h","i","n","t","s">>,
     <<"k","e","y","w","o","r","d">>, <<"k","e","y","w","o","r","d","s">>, <<"t","o","p","i","c","s">>, <<"t","o","p","i","c">>, <<"e","x","t","r","a","c","t","i","o","n">>, <<"a","r","c","h","i","t","e","c","t","u","r","e">>,
     <<"i","m","p","l","e","m","e","n","t","a","t","i","o","n">>, <<"w","o","r","k","f","l","o","w">>, <<"a","p","p","r","o","a","c","h">>, <<"U+7684">>, <<"U+5730">>, <<"U+5F97">>,
     <<"U+4E86">>, <<"U+7740">>, <<"U+8FC7">>, <<"U+5417">>, <<"U+5462">>, <<"U+554A">>,
     <<"U+5427">>, <<"U+5440">>, <<"U+6211">>, <<"U+4F60">>, <<"U+4ED6">>, <<"U+5979">>,
     <<"U+5B83">>, <<"U+6211","U+4EEC">>, <<"U+4F60","U+4EEC">>, <<"U+4ED6","U+4EEC">>, <<"U+8FD9">>, <<"U+90A3">>,
     <<"U+662F">>, <<"U+6709">>, <<"U+6CA1","U+6709">>, <<"U+4E0D">>, <<"U+4F1A">>, <<"U+80FD">>,
     <<"U+53EF","U+4EE5">>, <<"U+8981">>, <<"U+60F3">>, <<"U+505A">>, <<"U+770B">>, <<"U+8BF4">>,
     <<"U+77E5","U+9053">>, <<"U+5E2E">>, <<"U+5E2E","U+6211">>, <<"U+8BF7">>, <<"U+4EC0","U+4E48">>, <<"U+600E","U+4E48">>,
     <<"U+4E3A","U+4EC0","U+4E48">>, <<"U+5F88">>, <<"U+592A">>, <<"U+6700">>, <<"U+66F4">>, <<"U+5C31">>,
     <<"U+624D">>, <<"U+90FD">>, <<"U+4E5F">>, <<"U+8FD8">>, <<"U+53C8">>, <<"U+518D">>,
     <<"U+4E2A">>, <<"U+4E9B">>, <<"U+70B9">>, <<"U+4E0B">>, <<"U+6B21">>, <<"U+597D">>,
     <<"U+884C">>, <<"U+7136","U+540E">>
    }

(***************************************************************************)
(* Co-occurrence Discovery (build_custom_keywords.py)                      *)
(***************************************************************************)
MIN_COOCCURRENCE == 3

\* the import of jieba succeeded
JIEBA_AVAILABLE_keywords == jieba_installed

\* `s in text` of two strings
Contains(text, s) ==
    \E i \in 1..(Len(text) - Len(s) + 1) : SubSeq(text, i, i + Len(s) - 1) = s

\* matching_seeds: the seeds that appear in the message, as substrings
matching_seeds(text) ==
    {seed \in SEED_KEYWORDS : Contains(Lower(text), Lower(seed)) \/ Contains(text, seed)}

\* the sets extract_words(text) can return: the lowercased words of 3 letters
\* or more, and of the ideographs of the text joined together the words of 2
\* characters or more of a segmentation by jieba, or the bigrams without it
extract_words(text) ==
    LET en_words == Range(FindLongWordsFrom(Lower(text), 1))
        zh_text == SelectSeq(text, LAMBDA c : c \in CjkChars)
    IN  IF zh_text = <<>> THEN {en_words}
        ELSE IF JIEBA_AVAILABLE_keywords
          THEN {en_words \cup {w \in Range(zh_words) : Len(w) >= 2} :
                   zh_words \in Segmentations(zh_text)}
        ELSE {en_words \cup {SubSeq(zh_text, i, i + 1) : i \in 1..(Len(zh_text) - 1)}}

\* counter[k] of a Counter
CountOf(counter, k) == IF k \in DOMAIN counter THEN counter[k] ELSE 0

\* counter.update(words) for a list of words
Update(counter, words) ==
    [k \in DOMAIN counter \cup Range(words) |->
        CountOf(counter, k) + Cardinality({i \in DOMAIN words : words[i] = k})]

\* counter[k] += 1 for each k of a set
Increment(counter, keys) ==
    [k \in DOMAIN counter \cup keys |-> CountOf(counter, k) + (IF k \in keys THEN 1 ELSE 0)]

\* the words of a message that are counted with the seed: all but the seed
CountedWith(seed, words) == {w \in words : Lower(w) # Lower(seed) /\ w # seed}

\* the loops `for word in words: for seed in matching_seeds`
AddPairs(cooc, seeds, words) ==
    LET touched == {seed \in seeds : CountedWith(seed, words) # {}}
    IN  [seed \in DOMAIN cooc \cup touched |->
            IF seed \in touched
              THEN Increment(IF seed \in DOMAIN cooc THEN cooc[seed] ELSE <<>>,
                             CountedWith(seed, words))
              ELSE cooc[seed]]

\* one iteration of the loop of find_cooccurrences over the messages
find_cooccurrences_message ==
    /\ pc_disc = "count"
    /\ msg_index < Len(disc_messages)
    /\ LET text == disc_messages[msg_index + 1]
           en_words == FindLongWordsFrom(Lower(text), 1)
           seeds == matching_seeds(text)
       IN  \E words \in extract_words(text) :
              IF seeds # {}
                THEN /\ global_counts' = Increment(Update(global_counts, en_words),
                                                   {w \in words : ~IsAscii(w)})
                     /\ cooccurrence' = AddPairs(cooccurrence, seeds, words)
                ELSE /\ global_counts' = Update(global_counts, en_words)
                     /\ cooccurrence' = cooccurrence
    /\ msg_index' = msg_index + 1
    /\ UNCHANGED <<disc_messages, candidates, pc_disc, freq_vars, write_vars>>
    /\ UNCHANGED <<stemmer_installed, index_vars, fmt_vars, hint_vars>>

RECURSIVE SumOver(_, _)
\* the sum of the counts of the keys of a Counter
SumOver(counter, keys) ==
    IF keys = {} THEN 0
    ELSE LET k == CHOOSE x \in keys : TRUE
         IN  counter[k] + SumOver(counter, keys \ {k})

\* sum(counter.values())
SumValues(counter) == SumOver(counter, DOMAIN counter)

\* a variant of PassesFilters that lets the stopwords through
PassesFilters_keep_stopwords(word, count) ==
    /\ count >= MIN_COOCCURRENCE
    /\ ~(Lower(word) \in {Lower(s) : s \in SEED_KEYWORDS} \/ word \in SEED_KEYWORDS)

\* the three `continue` of score_candidates do not apply
PassesFilters(word, count) ==
    /\ ~(count < MIN_COOCCURRENCE)
    /\ ~(Lower(word) \in GENERAL_STOPWORDS \/ word \in GENERAL_STOPWORDS)
    /\ ~(Lower(word) \in {Lower(s) : s \in SEED_KEYWORDS} \/ word \in SEED_KEYWORDS)

\* a variant of pmi that counts no more than MIN_COOCCURRENCE co-occurrences
pmi_capped(count, seed_total, global_freq, total_corpus_words) ==
    LET capped == IF count > MIN_COOCCURRENCE THEN MIN_COOCCURRENCE ELSE count
    IN  IF global_freq > 0
           /\ capped * Max({total_corpus_words, 1}) > global_freq * Max({seed_total, 1})
          THEN [num |-> capped * Max({total_corpus_words, 1}),
                den |-> Max({seed_total, 1}) * global_freq]
          ELSE [num |-> 1, den |-> 1]

\* a variant of pmi without the test p_word_given_seed > p_word
pmi_signed(count, seed_total, global_freq, total_corpus_words) ==
    [num |-> count * Max({total_corpus_words, 1}),
     den |-> Max({seed_total, 1}) * global_freq]

\* pmi of score_candidates, as the fraction num / den of which it is the
\* logarithm to base 2: p_word_given_seed / p_word, or 1 for pmi = 0.
\*   p_word_given_seed = count / max(seed_total, 1)
\*   p_word = global_freq / max(total_corpus_words, 1)
pmi(count, seed_total, global_freq, total_corpus_words) ==
    IF global_freq > 0
       /\ count * Max({total_corpus_words, 1}) > global_freq * Max({seed_total, 1})
      THEN [num |-> count * Max({total_corpus_words, 1}),
            den |-> Max({seed_total, 1}) * global_freq]
      ELSE [num |-> 1, den |-> 1]

\* global_counts.get(word, 1)
GlobalFreq(word) == IF word \in DOMAIN global_counts THEN global_counts[word] ELSE 1

\* is_english_word: re.match(r'^[a-zA-Z]+$', word)
is_english_word(word) ==
    word # <<>> /\ \A i \in DOMAIN word : word[i] \in LowerSet \cup Range(UpperLetters)

\* None, the result of a frequency that is not known
None == [known |-> FALSE, num |-> 0, den |-> 1]

\* get_english_freq: the frequency num / den of the word in english_freq, the
\* table loaded from data/english_freq.txt (empty when the file is not there),
\* or None
get_english_freq(word) ==
    LET total == SumValues(english_freq)
        freq == IF Lower(word) \in DOMAIN english_freq THEN english_freq[Lower(word)] ELSE 0
    IN  IF DOMAIN english_freq = {} \/ total = 0 THEN None
        ELSE IF freq > 0 THEN [known |-> TRUE, num |-> freq, den |-> total]
        ELSE None

\* get_jieba_freq: the frequency of the word in jieba.dt.FREQ over
\* jieba.dt.total, or None (always None without jieba)
get_jieba_freq(word) ==
    IF ~JIEBA_AVAILABLE_keywords \/ jieba_freq = <<>> THEN None
    ELSE LET freq == IF word \in DOMAIN jieba_freq.FREQ THEN jieba_freq.FREQ[word] ELSE 0
         IN  IF freq > 0 /\ jieba_freq.total > 0
               THEN [known |-> TRUE, num |-> freq, den |-> jieba_freq.total]
               ELSE None

\* a variant of domain_boost that is 0 for a word that is as frequent in
\* general text as here
domain_boost_zero(word, global_freq, total_corpus_words) ==
    LET general_freq == IF is_english_word(word) THEN get_english_freq(word)
                        ELSE get_jieba_freq(word)
        corpus == Max({total_corpus_words, 1})
    IN  IF general_freq.known /\ general_freq.den > 0
          THEN IF global_freq * general_freq.den > corpus * general_freq.num
                 THEN IF global_freq * general_freq.den > 10 * corpus * general_freq.num
                        THEN [num |-> 10, den |-> 1]
                        ELSE [num |-> global_freq * general_freq.den,
                              den |-> corpus * general_freq.num]
                 ELSE [num |-> 0, den |-> 2]
        ELSE IF global_freq >= 10 THEN [num |-> 8, den |-> 1]
        ELSE [num |-> 2, den |-> 1]

\* domain_boost of score_candidates, as the fraction num / den:
\*   general_freq > 0:  min(10, our_freq / general_freq) if our_freq > general_freq
\*                      else 0.5, with our_freq = global_freq / max(total_corpus_words, 1)
\*   otherwise:         8 if global_freq >= 10 else 2
domain_boost(word, global_freq, total_corpus_words) ==
    LET general_freq == IF is_english_word(word) THEN get_english_freq(word)
                        ELSE get_jieba_freq(word)
        corpus == Max({total_corpus_words, 1})
    IN  IF general_freq.known /\ general_freq.den > 0
          THEN IF global_freq * general_freq.den > corpus * general_freq.num
                 THEN IF global_freq * general_freq.den > 10 * corpus * general_freq.num
                        THEN [num |-> 10, den |-> 1]
                        ELSE [num |-> global_freq * general_freq.den,
                              den |-> corpus * general_freq.num]
                 ELSE [num |-> 1, den |-> 2]
        ELSE IF global_freq >= 10 THEN [num |-> 8, den |-> 1]
        ELSE [num |-> 2, den |-> 1]

\* the terms score_candidates adds to candidates[word], one for each seed the
\* word passes the filters with. The score of a term is
\* count * (1 + pmi) * domain_boost, with pmi the logarithm to base 2 of the
\* fraction pmi and the fraction domain_boost.
ScoreTerms(word) ==
    {[seed |-> seed, count |-> cooccurrence[seed][word],
      pmi |-> pmi(cooccurrence[seed][word], SumValues(cooccurrence[seed]),
                  GlobalFreq(word), SumValues(global_counts)),
      boost |-> domain_boost(word, GlobalFreq(word), SumValues(global_counts))] :
        seed \in {s \in DOMAIN cooccurrence :
                     /\ word \in DOMAIN cooccurrence[s]
                     /\ PassesFilters(word, cooccurrence[s][word])}}

\* score_candidates: the words that have a score, each with its terms
score_candidates ==
    /\ pc_disc = "count"
    /\ msg_index = Len(disc_messages)
    /\ candidates' =
          LET scored == {word \in UNION {DOMAIN cooccurrence[s] : s \in DOMAIN cooccurrence} :
                            ScoreTerms(word) # {}}
          IN  [word \in scored |-> ScoreTerms(word)]
    /\ pc_disc' = "scored"
    /\ UNCHANGED <<disc_messages, msg_index, global_counts, cooccurrence, freq_vars, write_vars>>
    /\ UNCHANGED <<stemmer_installed, index_vars, fmt_vars, hint_vars>>

(***************************************************************************)
(* Runs of the Discovery job                                               *)
(***************************************************************************)
\* the most messages of an index
MaxMessages == 4

\* "API foo the", "api chrome foo", "foo bar" and
\* U+65E5 U+5386 U+597D " apiary"
DiscoveryTexts ==
    {<<"A","P","I"," ","f","o","o"," ","t","h","e">>,
     <<"a","p","i"," ","c","h","r","o","m","e"," ","f","o","o">>,
     <<"f","o","o"," ","b","a","r">>,
     <<"U+65E5","U+5386","U+597D"," ","a","p","i","a","r","y">>}

InitDiscovery ==
    /\ stemmer_installed = TRUE
    /\ IdleIndex
    /\ IdleFormatter
    /\ jieba_installed \in BOOLEAN
    /\ hint_text = <<>>
    /\ max_keywords = 0
    /\ segments = <<>>
    /\ hint_keywords = <<>>
    /\ unique_keywords = <<>>
    /\ pc_hint = "idle"
    /\ disc_messages \in UNION {[1..n -> DiscoveryTexts] : n \in 0..MaxMessages}
    /\ msg_index = 0
    /\ global_counts = <<>>
    /\ cooccurrence = <<>>
    /\ candidates = <<>>
    /\ pc_disc = "count"
    /\ NoFrequencies
    /\ IdleWrite

NextDiscovery ==
    \/ find_cooccurrences_message
    \/ score_candidates

SpecDiscovery == InitDiscovery /\ [][NextDiscovery]_vars

(***************************************************************************)
(* Runs of the Discovery job with frequency tables                         *)
(***************************************************************************)
\* the most messages of an index with frequency tables
MaxScoringMessages == 3

\* "api foo foo foo foo the", "api chrome foo" and U+65E5 U+5386 U+597D
ScoringTexts ==
    {<<"a","p","i"," ","f","o","o"," ","f","o","o"," ","f","o","o"," ","f","o","o"," ","t","h","e">>,
     <<"a","p","i"," ","c","h","r","o","m","e"," ","f","o","o">>,
     <<"U+65E5","U+5386","U+597D">>}

\* the tables of data/english_freq.txt: no file, "foo" rare, "foo" and
\* "chrome" common, "chrome" about as frequent as in the messages
EnglishTables ==
    {<<>>,
     (<<"f","o","o">> :> 1) @@ (<<"t","h","e">> :> 99),
     (<<"f","o","o">> :> 1) @@ (<<"c","h","r","o","m","e">> :> 1),
     (<<"f","o","o">> :> 2) @@ (<<"c","h","r","o","m","e">> :> 1) @@ (<<"t","h","e">> :> 7)}

\* jieba's dictionary: without the words of the messages, and with
\* U+5386 U+597D as one word in two
JiebaTables ==
    {<<>>,
     [FREQ |-> (<<"U+5386","U+597D">> :> 1) @@ (<<"U+65E5","U+5386","U+597D">> :> 1),
      total |-> 2]}

InitScoring ==
    /\ stemmer_installed = TRUE
    /\ IdleIndex
    /\ IdleFormatter
    /\ jieba_installed \in BOOLEAN
    /\ hint_text = <<>>
    /\ max_keywords = 0
    /\ segments = <<>>
    /\ hint_keywords = <<>>
    /\ unique_keywords = <<>>
    /\ pc_hint = "idle"
    /\ disc_messages \in UNION {[1..n -> ScoringTexts] : n \in 0..MaxScoringMessages}
    /\ msg_index = 0
    /\ global_counts = <<>>
    /\ cooccurrence = <<>>
    /\ candidates = <<>>
    /\ pc_disc = "count"
    /\ english_freq \in EnglishTables
    /\ jieba_freq \in JiebaTables
    /\ IdleWrite

SpecScoring == InitScoring /\ [][NextDiscovery]_vars

(***************************************************************************)
(* Co-occurrence Discovery: the keyword file (build_custom_keywords.main)  *)
(***************************************************************************)
\* candidates.most_common(50) and new_keywords[:30]
TopShown == 50
TopWritten == 30

\* the characters of ASCII from the space to the tilde, in the order of their
\* code points (the double quote, the backslash and the backtick by their names)
AsciiPrintable ==
    <<" ", "!", "QUOTE", "#", "$", "%", "&", "'", "(", ")", "*", "+", ",", "-", ".", "/", "0", "1", "2", "3", "4", "5", "6", "7", "8", "9", ":", ";", "<", "=", ">", "?", "@", "A", "B", "C", "D", "E", "F", "G", "H", "I", "J", "K", "L", "M", "N", "O", "P", "Q", "R", "S", "T", "U", "V", "W", "X", "Y", "Z", "[", "BACKSLASH", "]", "^", "_", "BACKTICK", "a", "b", "c", "d", "e", "f", "g", "h", "i", "j", "k", "l", "m", "n", "o", "p", "q", "r", "s", "t", "u", "v", "w", "x", "y", "z", "{", "|", "}", "~">>

\* ord(c) of the characters of the model
CodePoint ==
    [c \in Range(AsciiPrintable) \cup NonAsciiChars \cup {Tab, Newline} |->
        IF c = Tab THEN 9
        ELSE IF c = Newline THEN 10
        ELSE IF c = "U+00C9" THEN 201
        ELSE IF c = "U+00E9" THEN 233
        ELSE IF c = "U+3042" THEN 12354
        ELSE IF c = "U+4F60" THEN 20320
        ELSE IF c = "U+5386" THEN 21382
        ELSE IF c = "U+597D" THEN 22909
        ELSE IF c = "U+65E5" THEN 26085
        ELSE IF c = "U+7684" THEN 30340
        ELSE 31 + CHOOSE i \in DOMAIN AsciiPrintable : AsciiPrintable[i] = c]

RECURSIVE WordLess(_, _)
\* a < b of two str
WordLess(a, b) ==
    IF a = <<>> THEN b # <<>>
    ELSE IF b = <<>> THEN FALSE
    ELSE IF Head(a) = Head(b) THEN WordLess(Tail(a), Tail(b))
    ELSE CodePoint[Head(a)] < CodePoint[Head(b)]

RECURSIVE SetToSeq(_)
\* the elements of a set, in some order
SetToSeq(S) ==
    IF S = {} THEN <<>>
    ELSE LET x == CHOOSE y \in S : TRUE IN <<x>> \o SetToSeq(S \ {x})

\* sorted(S) of a set of str
sorted(S) == SortSeq(SetToSeq(S), WordLess)

RECURSIVE Strip(_)
\* line.strip()
Strip(s) ==
    IF s = <<>> THEN s
    ELSE IF IsSpace(Head(s)) THEN Strip(Tail(s))
    ELSE IF IsSpace(s[Len(s)]) THEN Strip(SubSeq(s, 1, Len(s) - 1))
    ELSE s

\* load_existing_keywords for a keyword file: the stripped lines that are not
\* empty and do not start with "#"
load_existing_keywords(file) ==
    IF file.exists
      THEN {Strip(file.lines[i]) : i \in {j \in DOMAIN file.lines :
                                             /\ Strip(file.lines[j]) # <<>>
                                             /\ Head(Strip(file.lines[j])) # "#"}}
      ELSE {}

\* existing = load_existing_keywords()
main_load_existing ==
    /\ pc_disc = "scored"
    /\ run_modes # <<>>
    /\ existing' = load_existing_keywords(keyword_file)
    /\ pc_disc' = "show"
    /\ UNCHANGED <<disc_messages, msg_index, global_counts, cooccurrence, candidates, freq_vars>>
    /\ UNCHANGED <<write_mode, keyword_file, new_keywords, file_buffer, observed, run_modes>>
    /\ UNCHANGED <<stemmer_installed, index_vars, fmt_vars, hint_vars>>

\* candidates.most_common(n) of a Counter given by its items in the order of
\* their insertion: by falling score, items of one score in that order
most_common(counter, n) ==
    LET order == SortSeq([i \in DOMAIN counter |-> i],
                         LAMBDA i, j : \/ counter[i].score > counter[j].score
                                       \/ /\ counter[i].score = counter[j].score
                                          /\ i < j)
    IN  [k \in 1..Min({n, Len(counter)}) |-> counter[order[k]].word]

\* a variant of main_show_candidates that goes through all the candidates
NewKeywords_all(counter, known) ==
    SelectSeq(most_common(counter, Len(counter)), LAMBDA word : word \notin known)

\* the loop over candidates.most_common(50) that fills new_keywords
NewKeywords(counter, known) ==
    SelectSeq(most_common(counter, TopShown), LAMBDA word : word \notin known)

\* the list of the top candidates, and the end of a run without --write
main_show_candidates ==
    /\ pc_disc = "show"
    /\ new_keywords' = NewKeywords(candidates, existing)
    /\ pc_disc' = IF write_mode THEN "open" ELSE "done"
    /\ UNCHANGED <<disc_messages, msg_index, global_counts, cooccurrence, candidates, freq_vars>>
    /\ UNCHANGED <<write_mode, keyword_file, existing, file_buffer, observed, run_modes>>
    /\ UNCHANGED <<stemmer_installed, index_vars, fmt_vars, hint_vars>>

\* open(OUTPUT_FILE, 'w'): the file is there and empty
main_open ==
    /\ pc_disc = "open"
    /\ keyword_file' = [exists |-> TRUE, lines |-> <<>>]
    /\ file_buffer' = <<>>
    /\ pc_disc' = "write"
    /\ UNCHANGED <<disc_messages, msg_index, global_counts, cooccurrence, candidates, freq_vars>>
    /\ UNCHANGED <<write_mode, existing, new_keywords, observed, run_modes>>
    /\ UNCHANGED <<stemmer_installed, index_vars, fmt_vars, hint_vars>>

\* the four comment lines main writes first
HeaderLines ==
    <<<<"#"," ","C","u","s","t","o","m"," ","k","e","y","w","o","r","d","s"," ","f","o","r"," ","m","e","m","o","r","y"," ","h","i","n","t">>,
      <<"#"," ","A","u","t","o","-","g","e","n","e","r","a","t","e","d"," ","b","y"," ","b","u","i","l","d","_","c","u","s","t","o","m","_","k","e","y","w","o","r","d","s",".","p","y">>,
      <<"#"," ","O","n","e"," ","k","e","y","w","o","r","d"," ","p","e","r"," ","l","i","n","e">>,
      <<"#">>>>

\* a variant of all_keywords that writes the new keywords only
all_keywords_new_only(known, new) == sorted(Range(Prefix(new, TopWritten)))

\* all_keywords = sorted(existing | set(new_keywords[:30]))
all_keywords(known, new) == sorted(known \cup Range(Prefix(new, TopWritten)))

\* the calls of f.write: the lines go to the buffer of f
main_write ==
    /\ pc_disc = "write"
    /\ file_buffer' = HeaderLines \o all_keywords(existing, new_keywords)
    /\ pc_disc' = "close"
    /\ UNCHANGED <<disc_messages, msg_index, global_counts, cooccurrence, candidates, freq_vars>>
    /\ UNCHANGED <<write_mode, keyword_file, existing, new_keywords, observed, run_modes>>
    /\ UNCHANGED <<stemmer_installed, index_vars, fmt_vars, hint_vars>>

\* the buffer of f is full: its first lines go to the file
file_flush ==
    /\ pc_disc = "close"
    /\ \E n \in 1..(Len(file_buffer) - 1) :
          /\ keyword_file' = [exists |-> TRUE,
                              lines |-> keyword_file.lines \o SubSeq(file_buffer, 1, n)]
          /\ file_buffer' = SubSeq(file_buffer, n + 1, Len(file_buffer))
    /\ UNCHANGED <<disc_messages, msg_index, global_counts, cooccurrence, candidates, pc_disc,
                   freq_vars>>
    /\ UNCHANGED <<write_mode, existing, new_keywords, observed, run_modes>>
    /\ UNCHANGED <<stemmer_installed, index_vars, fmt_vars, hint_vars>>

\* the end of the with block: f is closed, the rest of the buffer goes to the file
main_close ==
    /\ pc_disc = "close"
    /\ keyword_file' = [exists |-> TRUE, lines |-> keyword_file.lines \o file_buffer]
    /\ file_buffer' = <<>>
    /\ pc_disc' = "done"
    /\ UNCHANGED <<disc_messages, msg_index, global_counts, cooccurrence, candidates, freq_vars>>
    /\ UNCHANGED <<write_mode, existing, new_keywords, observed, run_modes>>
    /\ UNCHANGED <<stemmer_installed, index_vars, fmt_vars, hint_vars>>

\* another process reads the keyword file as load_existing_keywords and
\* load_custom_keywords of hint_keywords.py do
read_keyword_file ==
    /\ pc_disc \in {"scored", "show", "open", "write", "close", "done"}
    /\ run_modes # <<>>
    /\ observed' = [seen |-> TRUE, keywords |-> load_existing_keywords(keyword_file)]
    /\ UNCHANGED <<disc_messages, msg_index, global_counts, cooccurrence, candidates, pc_disc,
                   freq_vars>>
    /\ UNCHANGED <<write_mode, keyword_file, existing, new_keywords, file_buffer, run_modes>>
    /\ UNCHANGED <<stemmer_installed, index_vars, fmt_vars, hint_vars>>

\* the most candidates of a run, and the most runs
MaxCandidates == 52
MaxRuns == 3

\* build_custom_keywords.py is started again on the same index
main_again ==
    /\ pc_disc = "done"
    /\ Len(run_modes) < MaxRuns
    /\ \E flag \in BOOLEAN :
          /\ write_mode' = flag
          /\ run_modes' = Append(run_modes, flag)
    /\ existing' = {}
    /\ new_keywords' = <<>>
    /\ pc_disc' = "scored"
    /\ UNCHANGED <<disc_messages, msg_index, global_counts, cooccurrence, candidates, freq_vars>>
    /\ UNCHANGED <<keyword_file, file_buffer, observed>>
    /\ UNCHANGED <<stemmer_installed, index_vars, fmt_vars, hint_vars>>

(***************************************************************************)
(* The runs of main from the scored candidates on.  candidates is the      *)
(* Counter of score_candidates as the sequence of its items in the order   *)
(* of their insertion, with whole numbers for the scores: main uses the    *)
(* scores only to order the candidates.                                    *)
(***************************************************************************)

\* the i-th candidate word: "kaa", "kab", ...
CandidateWord(i) == <<"k", LowerLetters[((i - 1) \div 26) + 1], LowerLetters[((i - 1) % 26) + 1]>>

\* the numbers of candidates of the sample runs
CandidateCounts == {0, 2, 30, 31, 50, MaxCandidates}

\* the scores of the sample runs: falling, rising, and mixed with ties
ScoreShapes == {"falling", "rising", "mixed"}

\* a Counter of n candidates
SampleCandidates(n, shape) ==
    [i \in 1..n |-> [word |-> CandidateWord(i),
                     score |-> IF shape = "falling" THEN n + 1 - i
                               ELSE IF shape = "rising" THEN i
                               ELSE (7 * i) % 11]]

\* the numbers of top candidates the sample keyword files hold already
KnownCounts == {0, 1, 21, 30}

\* a comment line of the user, and a keyword of the user
UserComment == <<"#"," ","m","i","n","e">>
UserKeyword == <<"Z","e","d">>

\* the sample keyword files: none, one written by main, one edited by hand
\* (a comment, a keyword between spaces, an empty line, the keyword again)
KeywordFiles(known) ==
    { [exists |-> FALSE, lines |-> <<>>],
      [exists |-> TRUE, lines |-> HeaderLines \o sorted(Range(known))],
      [exists |-> TRUE,
       lines |-> <<UserComment, <<" ">> \o UserKeyword \o <<" ">>, <<>>, UserKeyword>> \o known] }

\* the state after score_candidates of the first run
StartWrite(n, shape, k, file, flag) ==
    /\ stemmer_installed = FALSE
    /\ IdleIndex
    /\ IdleFormatter
    /\ IdleHint
    /\ NoFrequencies
    /\ disc_messages = <<>>
    /\ msg_index = 0
    /\ global_counts = <<>>
    /\ cooccurrence = <<>>
    /\ candidates = SampleCandidates(n, shape)
    /\ pc_disc = "scored"
    /\ write_mode = flag
    /\ run_modes = <<flag>>
    /\ keyword_file = file
    /\ existing = {}
    /\ new_keywords = <<>>
    /\ file_buffer = <<>>
    /\ observed = [seen |-> FALSE, keywords |-> {}]

InitWrite ==
    \E n \in CandidateCounts, shape \in ScoreShapes, k \in KnownCounts, flag \in BOOLEAN :
        \E file \in KeywordFiles(most_common(SampleCandidates(n, shape), k)) :
            StartWrite(n, shape, k, file, flag)

NextWrite ==
    \/ main_load_existing
    \/ main_show_candidates
    \/ main_open
    \/ main_write
    \/ main_close
    \/ main_again

SpecWrite == InitWrite /\ [][NextWrite]_vars

(***************************************************************************)
(* A run of main with --write while another process reads the keyword      *)
(* file. The read is one step: the reader sees the file as it is then.     *)
(***************************************************************************)
MaxConcurrentCandidates == 3

InitConcurrent ==
    \E n \in 0..MaxConcurrentCandidates, shape \in ScoreShapes, k \in {0, 1}, flag \in BOOLEAN :
        \E file \in KeywordFiles(most_common(SampleCandidates(n, shape), k)) :
            StartWrite(n, shape, k, file, flag)

NextConcurrent ==
    \/ NextWrite
    \/ file_flush
    \/ read_keyword_file

SpecConcurrent == InitConcurrent /\ [][NextConcurrent]_vars

(***************************************************************************)
(* Claims about the Normalizer and the Index Builder                       *)
(***************************************************************************)
\* the tokens the two normalize_word are compared on: words in several letter
\* cases (keys of the tables among them), stemmed words, one-letter tokens and
\* the empty token
Tokens ==
    {Cats, ran, <<"R","a","n">>, <<"R","A","N">>, <<"c","a","t","s">>,
     <<"T","h","e">>, <<"w","e","r","e">>, <<"W","e","r","e">>,
     <<"r","u","n","n","i","n","g">>, <<"s","a","w">>, <<"M","e","n">>,
     <<"I">>, <<"a">>, <<>>}

\* C1: the irregular-form tables of build_index.py and normalize_query.py are
\* the same table (same keys, same base forms), and the Index Builder's
\* normalize_word (with its cache, in every state of a build) and the query
\* normalizer's normalize_word return the same result on every token.
C1_SameNormalizer ==
    /\ IRREGULARS_index = IRREGULARS_query
    /\ \A t \in Tokens \cup DOMAIN cache :
          normalize_word_index(t) = normalize_word_query(t)

\* C1 witness: a build has normalized an irregular form and a stemmed word,
\* both are answered from the cache, and the stemmer is in use.
C1_Witness ==
    /\ stemmer_installed
    /\ <<"R","a","n">> \in DOMAIN cache
    /\ <<"c","a","t","s">> \in DOMAIN cache
    /\ cache[<<"c","a","t","s">>] = <<"c","a","t">>

\* the maximal runs of word characters of a text, as <<first, last>>
WordRuns(text) ==
    {r \in (DOMAIN text) \X (DOMAIN text) :
        /\ r[1] <= r[2]
        /\ \A k \in r[1]..r[2] : IsWordChar(text[k])
        /\ (r[1] = 1 \/ ~IsWordChar(text[r[1] - 1]))
        /\ (r[2] = Len(text) \/ ~IsWordChar(text[r[2] + 1]))}

\* the words of a text made of ASCII letters only, as <<first, last>>
AlphabeticRuns(text) ==
    {r \in WordRuns(text) : \A k \in r[1]..r[2] : IsAsciiLetter(text[k])}

RECURSIVE InTextOrder(_, _)
\* the words at the runs `runs` of a text, by position
InTextOrder(text, runs) ==
    IF runs = {} THEN <<>>
    ELSE LET first == CHOOSE r \in runs : \A q \in runs : r[1] <= q[1]
         IN  <<SubSeq(text, first[1], first[2])>> \o InTextOrder(text, runs \ {first})

\* the single-space join of normalize_word over the alphabetic word
\* occurrences of a text, in text order and with multiplicity
ExpectedNormalized(text) ==
    LET occ == InTextOrder(text, AlphabeticRuns(text))
    IN  Join(<<Space>>, [i \in DOMAIN occ |-> normalize_word_index_uncached(occ[i])])

OutputFields(i) == SplitOn(RStripNewline(output_file[i]), Tab)

\* "the cat be run"
TheCatBeRun == <<"t","h","e"," ","c","a","t"," ","b","e"," ","r","u","n">>

\* C2 as stated: every emitted normalized_text is the single-space join of
\* normalize_word over the alphabetic word occurrences of the record's text, in
\* order and with multiplicity, and for "The cats were running" it is
\* "the cat be run".
C2_AsStated ==
    \A i \in DOMAIN output_file :
        /\ OutputFields(i)[5] = ExpectedNormalized(OutputFields(i)[4])
        /\ OutputFields(i)[4] = ExampleText => OutputFields(i)[5] = TheCatBeRun

\* C2 amended: every emitted normalized_text is the single-space join of
\* normalize_word over the alphabetic word occurrences of the record's text, in
\* order and with multiplicity; for "The cats were running" it is
\* "the cat be run" when the stemmer is installed.
C2_NormalizedText ==
    \A i \in DOMAIN output_file :
        /\ OutputFields(i)[5] = ExpectedNormalized(OutputFields(i)[4])
        /\ (stemmer_installed /\ OutputFields(i)[4] = ExampleText)
              => OutputFields(i)[5] = TheCatBeRun

\* C2 witness: a record whose text repeats a word has been emitted after the
\* example record, with the stemmer installed.
C2_Witness ==
    /\ stemmer_installed
    /\ Len(output_file) = 2
    /\ OutputFields(1)[4] = RepeatText
    /\ OutputFields(2)[4] = ExampleText
    /\ OutputFields(2)[5] = TheCatBeRun

\* str.upper() on a word of ASCII letters
UpperWord(s) ==
    [i \in DOMAIN s |->
        IF s[i] \in LowerSet
          THEN UpperLetters[CHOOSE k \in DOMAIN LowerLetters : LowerLetters[k] = s[i]]
          ELSE s[i]]

\* a word with its first letter in upper case
Capitalized(s) == IF s = <<>> THEN s ELSE <<UpperWord(s)[1]>> \o Tail(s)

\* both normalizers return the base form of the table for the token t
ReturnsBaseForm(t) ==
    /\ normalize_word_index(t) = IRREGULARS_index[Lower(t)]
    /\ normalize_word_query(t) = IRREGULARS_query[Lower(t)]

\* C14: for every token whose lowercased form is a key of the irregular-form
\* table, normalize_word (of the Index Builder and of the query normalizer)
\* returns the base form of the table, whatever the letter case of the token
\* and whatever the stemmer returns for it: checked for every key in lower,
\* upper and capitalized form when a build starts, and for the sample tokens
\* and every cached word in every state.
C14_TableWins ==
    /\ \A t \in Tokens \cup DOMAIN cache :
          Lower(t) \in DOMAIN IRREGULARS_index => ReturnsBaseForm(t)
    /\ (line_count = 0 /\ output_file = <<>> /\ input_file = <<>>) =>
          \A k \in DOMAIN IRREGULARS_index :
            ReturnsBaseForm(k) /\ ReturnsBaseForm(UpperWord(k)) /\ ReturnsBaseForm(Capitalized(k))

\* C14 witness: with the stemmer in use, which leaves "ran" as it is, a build
\* has normalized "Ran" to the base form "run" of the table.
C14_Witness ==
    /\ stemmer_installed
    /\ SnowballStem[<<"r","a","n">>] = <<"r","a","n">>
    /\ <<"R","a","n">> \in DOMAIN cache
    /\ cache[<<"R","a","n">>] = <<"r","u","n">>
    /\ line_count > 0

\* C15 as stated: for every token of length less than 2, normalize_word
\* returns the lowercased token.
C15_ShortTokensLowercased ==
    \A t \in Tokens \cup DOMAIN cache :
        Len(t) < 2 =>
          /\ normalize_word_index(t) = Lower(t)
          /\ normalize_word_query(t) = Lower(t)

\* the tab-separated fields of an input line, without its line end
FieldsOf(l) == SplitOn(IF l # <<>> /\ l[Len(l)] = Newline THEN SubSeq(l, 1, Len(l) - 1) ELSE l,
                       Tab)

\* the line is a record of the input format: 5 fields
IsInputRecord(l) == Len(FieldsOf(l)) = 5

\* output record out has 6 fields: those of the record l, with the normalized
\* text before the last
IsRecordOf(out, l) ==
    /\ out[Len(out)] = Newline
    /\ Len(FieldsOf(out)) = 6
    /\ \A k \in 1..4 : FieldsOf(out)[k] = FieldsOf(l)[k]
    /\ FieldsOf(out)[5] = normalize_text(FieldsOf(l)[4])
    /\ FieldsOf(out)[6] = FieldsOf(l)[5]

\* C16: every step of the Index Builder consumes the first remaining input
\* line and leaves the records already written as they are, appending at most
\* one record after them; for an input record (5 fields) it appends exactly
\* one record, of 6 fields: the 5 of the input unchanged and normalized_text
\* before project_path. So the output is the sequence of the accepted records
\* in input order, none reordered, duplicated or merged.
C16_RecordsInOrder ==
    [][(pc_index = "loop" /\ input_file # <<>>) =>
         /\ input_file' = Tail(input_file)
         /\ \/ output_file' = output_file /\ line_count' = line_count
            \/ /\ Len(output_file') = Len(output_file) + 1
               /\ SubSeq(output_file', 1, Len(output_file)) = output_file
               /\ line_count' = line_count + 1
               /\ Len(FieldsOf(output_file'[Len(output_file')])) = 6
               /\ \A k \in 1..4 : FieldsOf(output_file'[Len(output_file')])[k]
                                      = FieldsOf(Head(input_file))[k]
         /\ IsInputRecord(Head(input_file)) =>
               /\ Len(output_file') = Len(output_file) + 1
               /\ IsRecordOf(output_file'[Len(output_file')], Head(input_file))]_vars

\* C16 witness: the records of two input records were written, in the order
\* of the input, and the input is exhausted.
C16_Witness ==
    /\ pc_index = "done"
    /\ Len(output_file) = 2
    /\ IsRecordOf(output_file[1], LineCats)
    /\ IsRecordOf(output_file[2], LineRan)
    /\ line_count = 2

\* C17 as stated: a line whose number of tab-separated fields differs from 5,
\* fewer or more, produces no output record, and processing continues with
\* the next line.
C17_WrongFieldCountSkipped ==
    [][(pc_index = "loop" /\ input_file # <<>> /\ ~IsInputRecord(Head(input_file))) =>
         /\ output_file' = output_file
         /\ line_count' = line_count
         /\ input_file' = Tail(input_file)
         /\ pc_index' = "loop"]_vars

(***************************************************************************)
(* Claims about the Rank Formatter                                         *)
(***************************************************************************)
\* the statistics of the sessions are computed
Scored == pc_fmt \in {"rank", "cutoff", "render", "done"}
\* the sessions are ranked
Ranked == pc_fmt \in {"cutoff", "render", "done"}

\* the positions at which pat occurs in s, ignoring case
OccurrencesIn(pat, s) ==
    {p \in 1..(Len(s) - Len(pat) + 1) :
        \A k \in DOMAIN pat : LowerChar(s[p + k - 1]) = LowerChar(pat[k])}

\* the positions at which pat occurs in s as a whole word: no word character
\* before it and none after it
WholeWordOccurrencesIn(pat, s) ==
    {p \in OccurrencesIn(pat, s) :
        /\ (p = 1 \/ ~IsWordChar(s[p - 1]))
        /\ (p + Len(pat) > Len(s) \/ ~IsWordChar(s[p + Len(pat)]))}

\* the most occurrences of a pattern of length n, among those at positions P,
\* that do not overlap one another
NonOverlapping(P, n) ==
    Max({Cardinality(S) : S \in {T \in SUBSET P :
            \A p \in T, q \in T : p = q \/ p + n <= q \/ q + n <= p}})

\* the occurrences counted for the keyword at position i of the keyword list
KeywordOccurrences(msg, i) ==
    IF IsAscii(keywords[i])
      THEN NonOverlapping(WholeWordOccurrencesIn(keywords_normalized[i], msg.text_normalized),
                          Len(keywords_normalized[i]))
      ELSE NonOverlapping(OccurrencesIn(keywords[i], msg.text), Len(keywords[i]))

MessagesOf(session_id) == sessions[SessionIndex(sessions, session_id)].msgs

RECURSIVE HitCount(_, _)
\* the summed hit count of a keyword over the messages of a session
HitCount(msgs, kw) ==
    IF msgs = <<>> THEN 0
    ELSE LET c == get_keyword_counts(Head(msgs).text, Head(msgs).text_normalized,
                                     keywords, keywords_normalized)
         IN  (IF kw \in DOMAIN c THEN c[kw] ELSE 0) + HitCount(Tail(msgs), kw)

RECURSIVE PositionSum(_, _)
\* the sum over the positions 1..n of the keyword list of the hit count of the
\* keyword there times (length - zero-based position)
PositionSum(msgs, n) ==
    IF n = 0 THEN 0
    ELSE HitCount(msgs, keywords[n]) * (Len(keywords) - (n - 1)) + PositionSum(msgs, n - 1)

\* C4: the weighted_score of every session is the sum over the keyword list of
\* the session's summed hit count of the keyword times (n - zero-based
\* position), n the length of the list.
C4_WeightedScore ==
    Scored =>
      \A k \in DOMAIN session_stats :
        session_stats[k].weighted_score
          = PositionSum(MessagesOf(session_stats[k].session_id), Len(keywords))

\* C4 witness: a session with one hit of the first and two hits of the second
\* of two keywords has score 1 * 2 + 2 * 1.
C4_Witness ==
    /\ Scored
    /\ query = QueryCatsRan
    /\ \E k \in DOMAIN session_stats :
         /\ HitCount(MessagesOf(session_stats[k].session_id), <<"c","a","t","s">>) = 1
         /\ HitCount(MessagesOf(session_stats[k].session_id), <<"r","a","n">>) = 2
         /\ session_stats[k].weighted_score = 4

\* the ranking tuple of a session: weighted score, number of distinct keywords
\* hit, number of messages, latest timestamp
RankTuple(s) ==
    LET msgs == MessagesOf(s.session_id)
    IN  <<s.weighted_score,
          Cardinality({kw \in Range(keywords) : HitCount(msgs, kw) > 0}),
          Len(msgs),
          CHOOSE t \in {msgs[j].timestamp : j \in DOMAIN msgs} :
              \A j \in DOMAIN msgs : ~StrLess(t, msgs[j].timestamp)>>

\* x >= y for ranking tuples, lexicographically
TupleGeq(x, y) ==
    \/ x = y
    \/ \E i \in 1..4 :
         /\ \A k \in 1..(i - 1) : x[k] = y[k]
         /\ IF i = 4 THEN StrLess(y[4], x[4]) ELSE x[i] > y[i]

\* the summary lines printed, in order
SummaryLines == SelectSeq(stdout, LAMBDA o : o.kind = "session")

HitVectors ==
    [k \in DOMAIN session_stats |->
        [i \in DOMAIN keywords |->
            HitCount(MessagesOf(session_stats[k].session_id), keywords[i])]]

\* with hit counts h, the session hits the keyword at position i of the list
\* and no other keyword
HitsOnly(h, i) == \A n \in DOMAIN keywords : h[n] > 0 <=> keywords[n] = keywords[i]

\* the first position of a keyword in the list
FirstPosition(kw) == Min({i \in DOMAIN keywords : keywords[i] = kw})

\* C6 as stated: of two sessions with identical match counts, each hitting one
\* keyword, the one whose keyword is earlier in the list has a weighted_score
\* at least the other's and is ranked before it.
C6_AsStated ==
    (Ranked /\ mode = "simple") =>
      LET h == HitVectors
      IN  \A a \in DOMAIN session_stats, b \in DOMAIN session_stats :
            \A i \in DOMAIN keywords, j \in DOMAIN keywords :
              ( /\ session_stats[a].matches = session_stats[b].matches
                /\ FirstPosition(keywords[i]) < FirstPosition(keywords[j])
                /\ HitsOnly(h[a], i) /\ HitsOnly(h[b], j) )
              => /\ session_stats[a].weighted_score >= session_stats[b].weighted_score
                 /\ a < b

\* C6 amended: when no keyword is repeated in the query, of two sessions that
\* hit one keyword each, with identical hit counts of it, the one whose
\* keyword is earlier in the list has the greater weighted_score and is
\* ranked before the other.
C6_EarlierKeywordFirst ==
    (Ranked /\ mode = "simple"
       /\ \A i \in DOMAIN keywords, j \in DOMAIN keywords :
             keywords[i] = keywords[j] => i = j) =>
      LET h == HitVectors
      IN  \A a \in DOMAIN session_stats, b \in DOMAIN session_stats :
            \A i \in DOMAIN keywords, j \in DOMAIN keywords :
              ( /\ i < j
                /\ h[a][i] = h[b][j]
                /\ HitsOnly(h[a], i) /\ HitsOnly(h[b], j) )
              => /\ session_stats[a].weighted_score > session_stats[b].weighted_score
                 /\ a < b

\* C6 witness: the session read second hits the first keyword twice (in two
\* messages), the session read first hits the second keyword twice (in one
\* message), and the ranking has put the session read second first.
C6_Witness ==
    /\ Ranked
    /\ query = QueryCatsRan
    /\ Len(session_stats) = 2
    /\ sessions[2].session_id = session_stats[1].session_id
    /\ HitVectors = <<(<<2, 0>>), (<<0, 2>>)>>
    /\ session_stats[1].matches = 2
    /\ session_stats[2].matches = 1

\* the sessions read whose number of matching messages is at least n
SessionsWithAtLeast(n) ==
    {sessions[k].session_id : k \in {x \in DOMAIN sessions : Len(sessions[x].msgs) >= n}}

\* the latest timestamp among the messages of a session
LatestTimestamp(session_id) ==
    LET msgs == MessagesOf(session_id)
    IN  CHOOSE t \in {msgs[j].timestamp : j \in DOMAIN msgs} :
            \A j \in DOMAIN msgs : ~StrLess(t, msgs[j].timestamp)

\* C7: in strict mode a session with fewer than 5 matches is absent from the
\* ranked list and from the output, whatever keyword groups it contains, and
\* the sessions that remain, exactly those with at least 5 matches, are in
\* descending order of (match count, latest timestamp).
C7_StrictFloor ==
    (Ranked /\ mode = "strict") =>
      /\ {session_stats[k].session_id : k \in DOMAIN session_stats} = SessionsWithAtLeast(5)
      /\ \A i \in DOMAIN session_stats : \A j \in DOMAIN session_stats :
           i < j =>
             LET a == session_stats[i].session_id
                 b == session_stats[j].session_id
             IN  \/ Len(MessagesOf(a)) > Len(MessagesOf(b))
                 \/ /\ Len(MessagesOf(a)) = Len(MessagesOf(b))
                    /\ ~StrLess(LatestTimestamp(a), LatestTimestamp(b))
      /\ pc_fmt = "done" =>
           /\ Range(stderr) = {ShortId(s) : s \in SessionsWithAtLeast(5)}
           /\ {SummaryLines[i].short_id : i \in DOMAIN SummaryLines}
                = {ShortId(s) : s \in SessionsWithAtLeast(5)}

\* C7 witness: the first session read has 4 messages, each with every keyword
\* group, the second has 5; only the second is printed.
C7_Witness ==
    /\ pc_fmt = "done"
    /\ mode = "strict"
    /\ Len(sessions) = 2
    /\ Len(sessions[1].msgs) = 4
    /\ Len(sessions[2].msgs) = 5
    /\ \A j \in DOMAIN sessions[1].msgs :
         Cardinality(DOMAIN get_keyword_counts(sessions[1].msgs[j].text,
                                               sessions[1].msgs[j].text_normalized,
                                               keywords, keywords_normalized)) = Len(keywords)
    /\ stderr = <<ShortId(sessions[2].session_id)>>

RECURSIVE ScoreSum(_, _)
\* the sum of the weighted scores of the first n ranked sessions
ScoreSum(stats, n) ==
    IF n = 0 THEN 0 ELSE stats[n].weighted_score + ScoreSum(stats, n - 1)

\* the least k whose first k sessions carry at least 70% of the total score
LeastSeventyPercent(stats) ==
    Min({k \in DOMAIN stats :
            10 * ScoreSum(stats, k) >= 7 * ScoreSum(stats, Len(stats))})

\* the number of sessions the auto-cutoff keeps of a ranked non-empty list
KeptCount(stats) ==
    Min({Len(stats), Max({3, Min({8, LeastSeventyPercent(stats)})})})

\* C8: the auto-cutoff keeps the first min(N, max(3, min(8, k))) sessions of a
\* ranked list of N >= 1 sessions, k the least number of leading sessions with
\* at least 70% of the total weighted score: never more than 8, never fewer
\* than min(3, N); 7 of ten sessions of score 1, and both of two sessions.
C8_AutoCutoff ==
    [][(pc_fmt = "cutoff" /\ session_stats # <<>>) =>
         /\ pc_fmt' = "render"
         /\ session_stats' = SubSeq(session_stats, 1, KeptCount(session_stats))
         /\ Len(session_stats') <= 8
         /\ Len(session_stats') >= Min({3, Len(session_stats)})
         /\ (Len(session_stats) = 10
               /\ \A k \in DOMAIN session_stats : session_stats[k].weighted_score = 1)
              => Len(session_stats') = 7
         /\ Len(session_stats) = 2 => Len(session_stats') = 2]_vars

\* C8 witness: ten sessions of score 1 each were ranked and 7 are kept.
C8_Witness ==
    /\ pc_fmt = "render"
    /\ Len(sessions) = 10
    /\ \A k \in DOMAIN sessions :
         PositionSum(sessions[k].msgs, Len(keywords)) = 1
    /\ Len(session_stats) = 7

\* C9 as stated: the output has at most sessions_limit sessions.
C9_SessionLimit ==
    pc_fmt = "done" =>
      /\ Len(SummaryLines) <= sessions_limit
      /\ Len(stderr) <= sessions_limit

\* the fields of the row read last
LineFields == SplitOn(RStripNewline(line), Tab)

\* the row read last belongs to the active session
LineOfActiveSession ==
    /\ line # <<>>
    /\ current_session_id # <<>>
    /\ LineFields[1] = current_session_id

\* the active session appears nowhere: not among the sessions kept by the
\* reading loop, not in the statistics, not in the output
ActiveSessionAbsent ==
    /\ \A k \in DOMAIN sessions : sessions[k].session_id # current_session_id
    /\ \A k \in DOMAIN session_stats : session_stats[k].session_id # current_session_id
    /\ \A k \in DOMAIN SummaryLines : SummaryLines[k].short_id # ShortId(current_session_id)
    /\ \A k \in DOMAIN stderr : stderr[k] # ShortId(current_session_id)

\* C10: when CLAUDE_SESSION_ID is set and non-empty, no row of that session
\* contributes to the statistics or to the output, and a row of another
\* session is taken as it is when no active session is set.
C10_ActiveSessionExcluded ==
    /\ [](current_session_id # <<>> => ActiveSessionAbsent)
    /\ [][(pc_fmt = "read" /\ nread' = nread + 1) =>
            LET f == SplitOn(RStripNewline(line'), Tab)
            IN  /\ Len(f) = 6
                /\ IF current_session_id # <<>> /\ f[1] = current_session_id
                     THEN sessions' = sessions
                     ELSE sessions' = AddMessage(sessions, f[1],
                                         [timestamp |-> f[2], type |-> f[3], text |-> f[4],
                                          text_normalized |-> f[5], project_path |-> f[6]])]_vars

\* C10 witness: rows of the active session and of another session were read,
\* the last one of the active session, and only the other session is printed.
C10_Witness ==
    /\ pc_fmt = "done"
    /\ LineOfActiveSession
    /\ nread = 3
    /\ Len(sessions) = 1
    /\ Len(stderr) = 1
    /\ ActiveSessionAbsent

\* C18 as stated: the Formatter never ends with an uncaught error while it
\* scores rows or renders snippets, whatever the characters of the keywords
\* and whatever the rows: a run that has left the rendering has printed the
\* footer after the lines of the kept sessions.
C18_ReachesFooter ==
    /\ pc_fmt # "raised"
    /\ pc_fmt = "done" /\ sessions # <<>> =>
          /\ stdout # <<>>
          /\ stdout[Len(stdout)].kind = "footer"

\* the messages of the kept sessions
KeptMessages ==
    UNION {Range(session_stats[i].messages) : i \in DOMAIN session_stats}

\* the texts of the message lines printed
PrintedTexts ==
    {stdout[i].text : i \in {j \in DOMAIN stdout : stdout[j].kind = "message"}}

\* C23: extract_snippet returns a text that is not longer than context as it
\* is, without ellipsis and whatever the keywords are (also keywords that are
\* no regular expressions); when no message of the kept sessions is longer
\* than context, the snippets printed are texts of messages, unmodified.
C23_ShortTextUnmodified ==
    pc_fmt \in {"render", "done", "raised"} =>
        /\ \A m \in KeptMessages :
              Len(m.text) <= context =>
                  extract_snippet(m.text, m.text_normalized, keywords, keywords_normalized,
                                  context) = [raised |-> FALSE, text |-> m.text]
        /\ (\A m \in KeptMessages : Len(m.text) <= context) =>
              /\ pc_fmt # "raised"
              /\ PrintedTexts \subseteq {m.text : m \in KeptMessages}

\* a run that has printed "Cats ran" whole for the query "c(" and context 8
C23_Witness ==
    /\ pc_fmt = "done"
    /\ context = Len(RowCatsRan.text)
    /\ <<"c","(">> \in Range(keywords)
    /\ RowCatsRan.text \in PrintedTexts

\* the (timestamp, type, text) triples of a sequence of messages
TriplesOf(msgs) == {<<msgs[j].timestamp, msgs[j].type, msgs[j].text>> : j \in DOMAIN msgs}

\* the fields of the row read last
RowParts == SplitMax(RStripNewline(line), Tab, 5)

\* the step of reading a row whose triple the session has leaves the
\* aggregates as they are; any other row is put after the messages of its
\* session, which is made if the row is its first, with its own fields
RowAggregated ==
    (pc_fmt = "read" /\ nread' = nread + 1) =>
        LET p == SplitMax(RStripNewline(line'), Tab, 5)
            i == SessionIndex(sessions, p[1])
            k == SessionIndex(sessions', p[1])
            msg == [timestamp |-> p[2], type |-> p[3], text |-> p[4],
                    text_normalized |-> p[5], project_path |-> p[6]]
        IN  IF i # 0 /\ <<p[2], p[3], p[4]>> \in TriplesOf(sessions[i].msgs)
              THEN sessions' = sessions
              ELSE /\ k # 0
                   /\ sessions'[k].msgs = (IF i = 0 THEN <<>> ELSE sessions[i].msgs) \o <<msg>>
                   /\ \A j \in DOMAIN sessions : j # i => sessions'[j] = sessions[j]
                   /\ Len(sessions') = Len(sessions) + (IF i = 0 THEN 1 ELSE 0)

\* no two messages of a session aggregate have the same triple, and the
\* matches of a session are as many as the triples of its aggregate
AggregatesDistinct ==
    /\ \A i \in DOMAIN sessions :
          Cardinality(TriplesOf(sessions[i].msgs)) = Len(sessions[i].msgs)
    /\ \A i \in DOMAIN session_stats :
          session_stats[i].matches
            = Cardinality(TriplesOf(
                  sessions[SessionIndex(sessions, session_stats[i].session_id)].msgs))

\* C25: whatever rows the Formatter reads, a session aggregate holds at most
\* one message for a (timestamp, type, text) triple, the one of the first row
\* read with that triple, and the number of matches of a session is the
\* number of the distinct triples of its rows.
C25_OneMessagePerTriple == []AggregatesDistinct /\ [][RowAggregated]_vars

\* three rows of session s1 were read, two with the same triple, and the
\* session has two matches, the first with the fields of the first row
C25_Witness ==
    /\ pc_fmt = "done"
    /\ nread = 3
    /\ Len(sessions) = 1
    /\ Len(sessions[1].msgs) = 2
    /\ sessions[1].msgs[1].project_path = ProjectPath
    /\ sessions[1].msgs[2].timestamp = <<"2">>
    /\ RowParts[2] = <<"1">> /\ RowParts[3] = User /\ RowParts[6] = <<"/","q">>
    /\ \E i \in DOMAIN session_stats : session_stats[i].matches = 2

\* the position extract_snippet finds for a message: that of the first
\* keyword that matches the lowered text, else that of the first normalized
\* keyword among the normalized words, else -1
FoundPosition(m) ==
    LET first == KeywordLoop(keywords, Lower(m.text), 1)
    IN  IF first.pos >= 0 THEN first.pos
        ELSE NormalizedLoop(keywords_normalized, SplitWs(Lower(m.text)),
                            SplitWs(m.text_normalized), 1)

\* the kept messages that are longer than context and for which a position
\* is found without an error
WindowMessages ==
    {m \in KeptMessages :
        /\ Len(m.text) > context
        /\ ~KeywordLoop(keywords, Lower(m.text), 1).raised
        /\ FoundPosition(m) >= 0}

\* the snippet of a message
SnippetOf(m) ==
    extract_snippet(m.text, m.text_normalized, keywords, keywords_normalized, context).text

\* C26 as stated: the snippet of a text longer than context in which a
\* position is found is a window of exactly context characters of the text
\* that starts a third of context before the position, with an ellipsis
\* before it exactly when it does not start at the beginning of the text and
\* an ellipsis after it exactly when it does not reach the end.
C26_AsStated ==
    pc_fmt \in {"render", "done", "raised"} =>
        \A m \in WindowMessages :
            LET start == FoundPosition(m) - (context \div 3)
                end == start + context
            IN  /\ start >= 0
                /\ end <= Len(m.text)
                /\ SnippetOf(m) = (IF start > 0 THEN Ellipsis ELSE <<>>)
                                    \o SubSeq(m.text, start + 1, end)
                                    \o (IF end < Len(m.text) THEN Ellipsis ELSE <<>>)

\* C26 amended: the window runs from a third of context (rounded down) before
\* the position to the rest of context after it, cut at the beginning and at
\* the end of the text: it has context characters when it is not cut and
\* fewer when it is; the ellipses are as stated.
C26_WindowClipped ==
    pc_fmt \in {"render", "done", "raised"} =>
        \A m \in WindowMessages :
            LET pos == FoundPosition(m)
                start == IF pos - (context \div 3) > 0 THEN pos - (context \div 3) ELSE 0
                end == IF pos + context - (context \div 3) < Len(m.text)
                         THEN pos + context - (context \div 3) ELSE Len(m.text)
                window == SubSeq(m.text, start + 1, end)
            IN  /\ SnippetOf(m) = (IF start > 0 THEN Ellipsis ELSE <<>>) \o window
                                    \o (IF end < Len(m.text) THEN Ellipsis ELSE <<>>)
                /\ Len(window) <= context
                /\ (pos >= context \div 3 /\ pos + context - (context \div 3) <= Len(m.text))
                      => Len(window) = context

\* a run that has printed a window that is not cut, with both ellipses (as
\* "... ra..." for "Cats ran", the keyword "ran" and context 3)
C26_Witness ==
    /\ pc_fmt = "done"
    /\ \E m \in WindowMessages :
          /\ FoundPosition(m) > context \div 3
          /\ FoundPosition(m) + context - (context \div 3) < Len(m.text)
          /\ context >= 3
          /\ SnippetOf(m) \in PrintedTexts

\* C28 as stated: with the normalized query that normalize_query makes of the
\* query, the keywords and the normalized keywords are as many, and the
\* normalized keyword at a position is the normalized form of the keyword at
\* that position.
C28_KeywordsAligned ==
    /\ Len(keywords) = Len(keywords_normalized)
    /\ \A i \in DOMAIN keywords :
          /\ i \in DOMAIN keywords_normalized
          /\ <<keywords_normalized[i]>> = SplitWs(Lower(normalize_query(keywords[i])))

(***************************************************************************)
(* Claims about the Keyword Extractor                                      *)
(***************************************************************************)
\* a keyword made of ASCII letters
IsLatinKeyword(kw) == kw # <<>> /\ \A i \in DOMAIN kw : IsAsciiLetter(kw[i])

\* a keyword of the language of a stopword set is not in that set
NotAStopword(kw) ==
    /\ IsLatinKeyword(kw) => Lower(kw) \notin STOPWORDS_EN
    /\ has_cjk(kw) => kw \notin STOPWORDS_ZH

\* C11: every keyword extract_keywords collects or returns is absent from the
\* stopword set of its language: a Latin keyword from the English set, a CJK
\* keyword from the Chinese set, with jieba and with the bigram fallback.
C11_NoStopwords ==
    /\ \A i \in DOMAIN hint_keywords : NotAStopword(hint_keywords[i])
    /\ \A i \in DOMAIN unique_keywords : NotAStopword(unique_keywords[i])

\* C11 witness: without jieba, of the text U+4F60 U+597D U+7684 the bigram
\* U+4F60 U+597D is returned and the bigram U+597D U+7684, a stopword, is not.
C11_Witness ==
    /\ pc_hint = "done"
    /\ ~jieba_installed
    /\ hint_text = <<"U+4F60", "U+597D", "U+7684">>
    /\ <<"U+597D", "U+7684">> \in STOPWORDS_ZH
    /\ unique_keywords = <<(<<"U+4F60", "U+597D">>)>>

\* the position of the first occurrence of a keyword in the text: of a word or
\* a number as a whole word, ignoring case, of a CJK keyword as a substring;
\* 0 when there is none
FirstAppearance(kw, text) ==
    LET at == IF has_cjk(kw) THEN OccurrencesIn(kw, text)
                             ELSE WholeWordOccurrencesIn(kw, text)
    IN  IF at = {} THEN 0 ELSE Min(at)

\* C12 as stated: the keywords extract_keywords returns are in the order of
\* their first appearance in the text, words, numbers and CJK keywords alike.
C12_FirstAppearanceOrder ==
    pc_hint = "done" =>
      \A i \in DOMAIN unique_keywords, j \in DOMAIN unique_keywords :
        LET x == FirstAppearance(unique_keywords[i], hint_text)
            y == FirstAppearance(unique_keywords[j], hint_text)
        IN  (x > 0 /\ y > 0 /\ x < y) => i < j

\* two keywords are the same: Latin ones whatever their letter case
SameKeyword(a, b) ==
    IF IsLatinKeyword(a) /\ IsLatinKeyword(b) THEN Lower(a) = Lower(b) ELSE a = b

\* C13: extract_keywords returns at most max_keywords keywords, none of them
\* twice (Latin keywords compared ignoring case), and returns the empty list
\* for an empty or whitespace-only text.
C13_CappedAndUnique ==
    pc_hint = "done" =>
      /\ Len(unique_keywords) <= max_keywords
      /\ \A i \in DOMAIN unique_keywords, j \in DOMAIN unique_keywords :
           SameKeyword(unique_keywords[i], unique_keywords[j]) => i = j
      /\ (\A i \in DOMAIN hint_text : IsSpace(hint_text[i])) => unique_keywords = <<>>

\* C13 witness: of "Cat cat" the keyword cat was collected twice and is
\* returned once.
C13_Witness ==
    /\ pc_hint = "done"
    /\ hint_text = <<"C","a","t"," ","c","a","t">>
    /\ max_keywords = DefaultMaxKeywords
    /\ hint_keywords = <<(<<"c","a","t">>), (<<"c","a","t">>)>>
    /\ unique_keywords = <<(<<"c","a","t">>)>>

(***************************************************************************)
(* Claims about the Discovery job                                          *)
(***************************************************************************)
\* the word occurs in the message: as a word of 3 letters or more, or among
\* its ideographs
OccursIn(word, text) ==
    IF IsAscii(word) THEN word \in Range(FindLongWordsFrom(Lower(text), 1))
    ELSE Contains(SelectSeq(text, LAMBDA c : c \in CjkChars), word)

\* the message contains the seed, in any case
ContainsSeed(text, seed) == Contains(Lower(text), Lower(seed))

\* the messages visited that contain the seed and in which the word occurs
MessagesWithBoth(seed, word) ==
    {i \in 1..msg_index : /\ ContainsSeed(disc_messages[i], seed)
                          /\ OccursIn(word, disc_messages[i])}

\* the word occurs in a message visited, and in none that contains a seed
OnlyWithoutSeeds(word) ==
    /\ \E i \in 1..msg_index : OccursIn(word, disc_messages[i])
    /\ \A i \in 1..msg_index :
          OccursIn(word, disc_messages[i]) =>
             \A seed \in SEED_KEYWORDS : ~ContainsSeed(disc_messages[i], seed)

\* C19: every word of the scored candidate set has a co-occurrence count of
\* at least 3 with some seed, is no seed in any case and no general stopword.
\* A co-occurrence count never exceeds the number of messages that contain
\* the seed and the word, so a word that occurs only in messages without a
\* seed has no co-occurrence count and is never a candidate.
C19_CandidatesFiltered ==
    pc_disc = "scored" =>
    /\ \A word \in DOMAIN candidates :
          /\ \E seed \in DOMAIN cooccurrence :
                /\ CountOf(cooccurrence[seed], word) >= 3
                /\ Cardinality(MessagesWithBoth(seed, word)) >= 3
          /\ \A seed \in SEED_KEYWORDS : Lower(word) # Lower(seed)
          /\ word \notin GENERAL_STOPWORDS
    /\ \A seed \in DOMAIN cooccurrence :
          /\ seed \in SEED_KEYWORDS
          /\ \A word \in DOMAIN cooccurrence[seed] :
                /\ cooccurrence[seed][word] >= 1
                /\ cooccurrence[seed][word] <= Cardinality(MessagesWithBoth(seed, word))
    /\ \A i \in 1..msg_index :
          \A word \in Range(FindLongWordsFrom(Lower(disc_messages[i]), 1)) :
             OnlyWithoutSeeds(word) =>
                /\ \A seed \in DOMAIN cooccurrence : CountOf(cooccurrence[seed], word) = 0
                /\ word \notin DOMAIN candidates

\* C19 witness: the scoring is done; "foo" is a candidate; "the" and "chrome"
\* were counted with the seed "api" as often as "foo" and are none; "bar"
\* occurs only in a message without a seed.
C19_Witness ==
    /\ pc_disc = "scored"
    /\ <<"f","o","o">> \in DOMAIN candidates
    /\ <<"a","p","i">> \in DOMAIN cooccurrence
    /\ CountOf(cooccurrence[<<"a","p","i">>], <<"f","o","o">>) >= 3
    /\ \/ CountOf(cooccurrence[<<"a","p","i">>], <<"t","h","e">>) >= 3
       \/ CountOf(cooccurrence[<<"a","p","i">>], <<"c","h","r","o","m","e">>) >= 3
    /\ OnlyWithoutSeeds(<<"b","a","r">>)

\* the most co-occurrences of a word with a seed that are compared
MaxCount == 5

\* the pmi a is less than the pmi b (the logarithm grows with the fraction)
PmiLess(a, b) == a.num * b.den < b.num * a.den

\* the pmi of a word for each count up to MaxCount, seed_total, the global
\* frequency of the word and the size of the corpus given
PmiByCount(seed_total, global_freq, total_corpus_words) ==
    [count \in 1..MaxCount |-> pmi(count, seed_total, global_freq, total_corpus_words)]

\* the numbers score_candidates computes the pmi from, for each pair of a seed
\* and a word it goes through
ScoredTotals ==
    LET total_corpus_words == SumValues(global_counts)
    IN  UNION {LET seed_total == SumValues(cooccurrence[seed])
               IN  {<<seed_total, GlobalFreq(word), total_corpus_words>> :
                       word \in DOMAIN cooccurrence[seed]} :
                  seed \in DOMAIN cooccurrence}

\* C20 as stated: of two co-occurrence counts, seed_total and the global
\* frequencies the same, the greater has the strictly greater PMI.
C20_AsStated ==
    pc_disc = "scored" =>
       \A t \in ScoredTotals :
          LET by_count == PmiByCount(t[1], t[2], t[3])
          IN  \A c1 \in 1..MaxCount, c2 \in 1..MaxCount :
                 c1 < c2 => PmiLess(by_count[c1], by_count[c2])

\* C20: of two co-occurrence counts, seed_total and the global frequencies
\* the same, the greater never has the lesser PMI, and it has the strictly
\* greater PMI wherever its PMI is not 0, that is where
\* P(word|seed) > P(word) for it.
C20_PmiMonotone ==
    pc_disc = "scored" =>
       \A t \in ScoredTotals :
          LET by_count == PmiByCount(t[1], t[2], t[3])
          IN  \A c1 \in 1..MaxCount, c2 \in 1..MaxCount :
                 c1 < c2 =>
                    /\ ~PmiLess(by_count[c2], by_count[c1])
                    /\ PmiLess([num |-> 1, den |-> 1], by_count[c2])
                          => PmiLess(by_count[c1], by_count[c2])

\* C20 witness: a word was scored with a PMI above 0, and for one more
\* co-occurrence its PMI is greater; for other numbers the PMI is 0 for the
\* counts 1 and 2.
C20_Witness ==
    /\ pc_disc = "scored"
    /\ \E word \in DOMAIN candidates : \E t \in candidates[word] :
          /\ PmiLess([num |-> 1, den |-> 1], t.pmi)
          /\ t.count < MaxCount
          /\ PmiLess(t.pmi, pmi(t.count + 1, SumValues(cooccurrence[t.seed]),
                                GlobalFreq(word), SumValues(global_counts)))
    /\ \E t \in ScoredTotals :
          /\ pmi(1, t[1], t[2], t[3]) = [num |-> 1, den |-> 1]
          /\ pmi(2, t[1], t[2], t[3]) = [num |-> 1, den |-> 1]

\* the terms of the scores, each with the numbers of its word and seed:
\* P(word|seed) = count / given_den and P(word) = word_num / word_den
TermsWithProbabilities ==
    UNION {{[count |-> t.count, pmi |-> t.pmi, boost |-> t.boost,
             given_den |-> Max({SumValues(cooccurrence[t.seed]), 1}),
             word_num |-> GlobalFreq(word),
             word_den |-> Max({SumValues(global_counts), 1})] : t \in candidates[word]} :
           word \in DOMAIN candidates}

\* C27: the PMI of every term of a score is the logarithm of a fraction that
\* is not below 1, so it is not negative; it is 0 (the fraction is 1) when
\* P(word|seed) <= P(word) and positive otherwise; the count and the domain
\* boost are positive, so the term count * (1 + PMI) * boost is at least
\* count * boost.
C27_PmiNeverNegative ==
    pc_disc = "scored" =>
        \A t \in TermsWithProbabilities :
            /\ t.pmi.den > 0
            /\ t.pmi.num >= t.pmi.den
            /\ (t.count * t.word_den <= t.word_num * t.given_den) => t.pmi.num = t.pmi.den
            /\ (t.count * t.word_den > t.word_num * t.given_den) => t.pmi.num > t.pmi.den
            /\ t.count > 0
            /\ t.boost.num > 0 /\ t.boost.den > 0

\* a scored index with a term of PMI 0 for a word that is no more frequent
\* with the seed than in general ("foo" in three messages
\* "api foo foo foo foo the"), whose score is count * boost with a boost above 1
C27_Witness ==
    /\ pc_disc = "scored"
    /\ \E t \in TermsWithProbabilities :
          /\ t.count * t.word_den <= t.word_num * t.given_den
          /\ t.pmi = [num |-> 1, den |-> 1]
          /\ t.boost.num > t.boost.den

(***************************************************************************)
(* Claims on the keyword file of Co-occurrence Discovery                   *)
(***************************************************************************)
\* the keywords of the keyword file
FileKeywords == load_existing_keywords(keyword_file)

\* the lines of the keyword file that are no comments and not empty
KeywordLines == SelectSeq(keyword_file.lines, LAMBDA l : Strip(l) # <<>> /\ Head(Strip(l)) # "#")

\* a run with --write has ended
WriteRunDone == pc_disc = "done" /\ run_modes # <<>> /\ write_mode

\* C21 as stated: after a run with --write the keyword file holds the keywords
\* it held before and exactly the 30 candidates of the greatest scores that
\* were not in it (all of them when they are fewer than 30), in sorted order.
C21_TopThirtyMerged ==
    WriteRunDone =>
        /\ FileKeywords = existing \cup Range(Prefix(NewKeywords_all(candidates, existing), TopWritten))
        /\ LET written == KeywordLines
           IN  \A i \in 1..(Len(written) - 1) : WordLess(written[i], written[i + 1])

\* the comment lines of the keyword file
CommentLines ==
    {Strip(keyword_file.lines[i]) : i \in {j \in DOMAIN keyword_file.lines :
                                              /\ Strip(keyword_file.lines[j]) # <<>>
                                              /\ Head(Strip(keyword_file.lines[j])) = "#"}}

\* the lines a run with --write puts in the file it has opened: they are the
\* lines of the file after the run
LinesToWrite == HeaderLines \o all_keywords(existing, new_keywords)

\* C22 as stated: a run with --write keeps the comments of the keyword file:
\* every comment line of the file the run is about to open for writing is
\* among the lines the run writes, and so in the file after the run.
C22_CommentsPreserved ==
    /\ pc_disc = "open" => CommentLines \subseteq Range(LinesToWrite)
    /\ WriteRunDone => keyword_file.lines = LinesToWrite

\* C24 as stated: a process that reads the keyword file while a run with
\* --write rewrites it sees all the keywords the file held before the run or
\* all the keywords it holds after the run, never a part of them.
C24_NoPartialRead ==
    [][(observed' # observed /\ pc_disc \in {"write", "close"}) =>
          observed'.keywords \in {existing,
                                  existing \cup Range(Prefix(new_keywords, TopWritten))}]_vars

\* the previous run and this one were runs with --write
SecondWriteDone ==
    /\ WriteRunDone
    /\ Len(run_modes) >= 2
    /\ run_modes[Len(run_modes) - 1]

\* at the end of a run the file holds the keywords the run found in it, and
\* after a run with --write no two keyword lines of the file are the same
KeywordsKept ==
    /\ (pc_disc = "done" /\ run_modes # <<>>) => existing \subseteq FileKeywords
    /\ WriteRunDone =>
          LET stripped == [i \in DOMAIN KeywordLines |-> Strip(KeywordLines[i])]
          IN  Cardinality(Range(stripped)) = Len(stripped)

\* no step of a run without --write, and no start of a run, changes the file
DryRunLeavesFile ==
    (~write_mode \/ pc_disc = "done") => keyword_file' = keyword_file

\* C29: over any sequence of runs, with or without --write, every keyword
\* that is in the keyword file before a run is in it after the run, a run
\* without --write leaves the file as it is, and after a run with --write no
\* keyword is on more than one line.
C29_KeywordSetGrows == []KeywordsKept /\ [][DryRunLeavesFile]_vars

\* a run with --write after a dry run has ended on a file edited by hand that
\* held the keyword Zed twice: the file has the old keywords and new ones
C29_Witness ==
    /\ WriteRunDone
    /\ run_modes = <<FALSE, TRUE>>
    /\ UserKeyword \in existing
    /\ existing # FileKeywords
    /\ Len(SelectSeq(keyword_file.lines, LAMBDA l : l = UserKeyword)) = 1

SpecIndex == InitIndex /\ [][NextIndex]_vars

Init == InitIndex \/ InitIndexLines \/ InitSimple \/ InitStrict \/ InitCutoff \/ InitCounts
          \/ InitSnippet \/ InitDedup \/ InitAlignment
          \/ InitHint \/ InitDiscovery \/ InitScoring \/ InitWrite
          \/ InitConcurrent
Next == NextIndex \/ NextSimple \/ NextStrict \/ NextDedup \/ NextAlignment \/ NextHint \/ NextDiscovery \/ NextWrite
          \/ NextConcurrent

\* every run of the model
Spec == Init /\ [][Next]_vars
====
